---- MODULE Spec2Model ----
(***************************************************************************)
(* Streaming engine of libosmo-fl2k (src/src/libosmo-fl2k.c): the async    *)
(* status state machine, the pool of N+2 transfer slots, the sample worker *)
(* (producer) thread, the USB worker (event pump) thread and the libusb    *)
(* completion callback.                                                    *)
(***************************************************************************)
EXTENDS Integers, Sequences, FiniteSets, TLC

(* ------------------------------------------------------------------ *)
(* Bounds of the model                                                 *)
(* ------------------------------------------------------------------ *)
\* largest buf_num a caller passes to fl2k_start_tx
MaxBufNum == 1
\* the producer callback stops delivering data after this many filled buffers
MaxSeq == 3
\* underruns explored per handle
MaxUnderflow == 1
\* calls of fl2k_set_mode explored per handle
MaxSetMode == 1
\* the target rates passed to fl2k_set_sample_rate are the multiples of 25 MHz
\* up to this many
MaxRateK == 25
\* the conversions are run on buffers of up to this many groups (of 24 output
\* bytes in multi-channel mode, of 8 bytes in single-channel mode)
MaxGroups == 2
\* the USB bus holds up to this many devices when fl2k_open is called
MaxDevices == 3
\* largest n_buffers of a fl2k_start_tx whose pool set-up is looked at on its
\* own; n_buffers = 0 asks for the default
MaxStartBuf == 3

(* ------------------------------------------------------------------ *)
(* Program constants                                                   *)
(* ------------------------------------------------------------------ *)
DEFAULT_BUF_NUMBER == 4
\* have two spare buffers that can be filled while the others are submitted
SPARE_BUFS == 2

\* enum fl2k_async_status
FL2K_INACTIVE == "INACTIVE"
FL2K_CANCELING == "CANCELING"
FL2K_RUNNING == "RUNNING"
AsyncStatus == {FL2K_INACTIVE, FL2K_CANCELING, FL2K_RUNNING}

\* enum fl2k_buf_state
BUF_EMPTY == "EMPTY"
BUF_SUBMITTED == "SUBMITTED"
BUF_FILLED == "FILLED"
BufState == {BUF_EMPTY, BUF_SUBMITTED, BUF_FILLED}

\* enum libusb_transfer_status, as far as the code tells the values apart:
\* TRANSFER_ERROR stands for every status that is neither COMPLETED nor CANCELLED
LIBUSB_TRANSFER_COMPLETED == "COMPLETED"
LIBUSB_TRANSFER_CANCELLED == "CANCELLED"
LIBUSB_TRANSFER_ERROR == "ERROR"

\* results of libusb calls, as far as the code tells them apart
LIBUSB_SUCCESS == "OK"
LIBUSB_ERROR_NO_DEVICE == "NO_DEVICE"
LIBUSB_ERROR_INTERRUPTED == "INTERRUPTED"
LIBUSB_ERROR_OTHER == "ERR"
SubmitResults == {LIBUSB_SUCCESS, LIBUSB_ERROR_NO_DEVICE, LIBUSB_ERROR_OTHER}
EventResults == {LIBUSB_SUCCESS, LIBUSB_ERROR_INTERRUPTED, LIBUSB_ERROR_OTHER}

\* return values of the library calls
FL2K_SUCCESS == "SUCCESS"
FL2K_ERROR_BUSY == "BUSY"
FL2K_ERROR_INVALID_PARAM == "INVALID_PARAM"
FL2K_ERROR_OTHER == "OTHER"

\* fl2k_mode_t; MODE_INVALID stands for every value that is neither of the two
FL2K_MODE_MULTICHAN == "MULTICHAN"
FL2K_MODE_SINGLECHAN == "SINGLECHAN"
MODE_INVALID == "INVALID"
Modes == {FL2K_MODE_MULTICHAN, FL2K_MODE_SINGLECHAN}

\* outcomes of a 4-byte libusb_control_transfer, as far as the code tells them
\* apart: all 4 bytes moved, fewer than 4 bytes moved, a negative error code
CTRL_FULL == "FULL"
CTRL_SHORT == "SHORT"
CTRL_ERROR == "CTRL_ERROR"
CtrlResults == {CTRL_FULL, CTRL_SHORT, CTRL_ERROR}

\* further results of the I2C calls
FL2K_ERROR_TIMEOUT == "TIMEOUT"
FL2K_ERROR_NOT_FOUND == "NOT_FOUND"
FL2K_ERROR_NO_MEM == "NO_MEM"

VARIABLES
    async_status,   \* dev->async_status
    async_cancel,   \* dev->async_cancel
    dev_lost,       \* dev->dev_lost
    underflow_cnt,  \* dev->underflow_cnt
    xfer_num,       \* dev->xfer_num (N); the pool has xfer_num + 2 slots
    xfer,           \* dev->xfer != NULL: the pool is allocated
    xfer_info,      \* dev->xfer_info[i]: [state, seq] of slot i
    xfer_status,    \* dev->xfer[i]->status as libusb last set it
    inflight,       \* transfers accepted by libusb, not yet delivered, oldest first
    cancelling,     \* in-flight transfers with an accepted libusb_cancel_transfer
    sw,             \* the sample worker thread: pc, buf_cnt, xfer, err_cb, events
    uw,             \* the USB worker thread: pc, next_status, i, r
    closed,         \* fl2k_close has torn the handle down
    he_failed,      \* libusb_handle_events failed in the second loop of this session
    lost_in_session,\* a completion callback took the device-lost path in this session
    subHigh,        \* largest seq the callback has had accepted in this session
    filledHigh,     \* largest seq of a FILLED slot it has had accepted in this session
    seqHigh,        \* largest seq the running sample worker has given a slot
    dropped,        \* the sample worker has skipped an input buffer in this session
    orphans,        \* worker thread pairs whose handles fl2k_start_tx overwrote
    mode,           \* dev->mode
    reg_8004,       \* device register 0x8004: [palette, rest]
    palette_ram,    \* the palette RAM of the device
    set_mode_ret,   \* what the last fl2k_set_mode returned
    set_mode_calls, \* how often fl2k_set_mode has been called on the handle
    rate,           \* dev->rate
    rate_call,      \* the last fl2k_set_sample_rate: [target, reg, ret]
    rate_got,       \* what fl2k_get_sample_rate returned since then
    conv_in,        \* the fl2k_data_info_t a producer callback has filled in
    conv_out,       \* the buffer the conversion functions have written from it
    open_in,        \* the bus and the index of an fl2k_open call: [list, index]
    open_out,       \* what that call did
    i2c,            \* an fl2k_i2c_read or fl2k_i2c_write call and how far it has got
    cb,             \* the completion callback that has read the status and not yet acted
    mem             \* the buffers of a pool: an allocation and the free that follows it

vars == <<async_status, async_cancel, dev_lost, underflow_cnt, xfer_num, xfer,
          xfer_info, xfer_status, inflight, cancelling, sw, uw, closed,
          he_failed, lost_in_session, subHigh, filledHigh, seqHigh, dropped, orphans,
          mode, reg_8004, palette_ram, set_mode_ret, set_mode_calls,
          rate, rate_call, rate_got, conv_in, conv_out, open_in, open_out, i2c, cb,
          mem>>

\* the mode configuration of the handle and of the device
modeVars == <<mode, reg_8004, palette_ram, set_mode_ret, set_mode_calls>>
\* what the streaming engine never writes
\* the sample rate of the handle
rateVars == <<rate, rate_call, rate_got>>
\* the buffers of the format conversion
convVars == <<conv_in, conv_out>>
\* an fl2k_open call
openVars == <<open_in, open_out>>
\* a transaction on the I2C bus of the device
i2cVars == <<i2c>>
\* a completion callback between its test of the status and its submission
cbVars == <<cb>>
\* the memory of the transfer buffers
memVars == <<mem>>
confVars == <<modeVars, rateVars, convVars, openVars, i2cVars, cbVars, memVars>>
\* the streaming engine
engineVars == <<async_status, async_cancel, dev_lost, underflow_cnt, xfer_num, xfer,
                xfer_info, xfer_status, inflight, cancelling, sw, uw, closed,
                he_failed, lost_in_session, subHigh, filledHigh, seqHigh, dropped,
                orphans>>

devVars == <<async_status, async_cancel, dev_lost, underflow_cnt>>
poolVars == <<xfer_num, xfer, xfer_info, xfer_status, inflight, cancelling>>
histVars == <<he_failed, lost_in_session, subHigh, filledHigh, seqHigh, dropped>>

(* ------------------------------------------------------------------ *)
(* Helpers                                                             *)
(* ------------------------------------------------------------------ *)
NoXfer == -1
EmptyPool == [i \in {} |-> 0]

Slots == DOMAIN xfer_info
InflightSet == {inflight[k] : k \in DOMAIN inflight}
Remove(q, i) == SelectSeq(q, LAMBDA e : e # i)
Tagged(info, st) == {i \in DOMAIN info : info[i].state = st}

ThreadAlive(t) == t.pc \notin {"none", "done"}
WorkersAlive == ThreadAlive(sw) \/ ThreadAlive(uw)

(* ------------------------------------------------------------------ *)
(* Pure parts of the code                                              *)
(* ------------------------------------------------------------------ *)
\* the for loop of fl2k_get_next_xfer from index i on: the first EMPTY slot, or
\* the FILLED slot with the smallest seq (the first one on a tie)
RECURSIVE get_next_xfer_scan(_, _, _, _, _)
get_next_xfer_scan(info, state, i, next_buf, next_seq) ==
    IF i >= Cardinality(DOMAIN info)
    THEN IF state = BUF_FILLED /\ next_buf >= 0 THEN next_buf ELSE NoXfer
    ELSE IF info[i].state = state
         THEN IF state = BUF_EMPTY
              THEN i
              ELSE IF info[i].seq < next_seq \/ next_buf < 0
                   THEN get_next_xfer_scan(info, state, i + 1, i, info[i].seq)
                   ELSE get_next_xfer_scan(info, state, i + 1, next_buf, next_seq)
         ELSE get_next_xfer_scan(info, state, i + 1, next_buf, next_seq)

\* fl2k_get_next_xfer as it would be without the seq comparison: the first slot
\* in the wanted state
fl2k_get_next_xfer_first(info, state) ==
    IF Tagged(info, state) = {} THEN NoXfer
    ELSE CHOOSE i \in Tagged(info, state) : \A j \in Tagged(info, state) : i <= j

\* fl2k_get_next_xfer as it would be if it did not look at the state of a slot:
\* the slot with the smallest seq
fl2k_get_next_xfer_any_state(info, state) ==
    IF DOMAIN info = {} THEN NoXfer
    ELSE CHOOSE i \in DOMAIN info :
            \A j \in DOMAIN info :
                info[i].seq < info[j].seq \/ (info[i].seq = info[j].seq /\ i <= j)

fl2k_get_next_xfer(info, state) == get_next_xfer_scan(info, state, 0, NoXfer, 0)

\* fl2k_stop_tx as it would be if it only ever asked for a graceful stop
fl2k_stop_tx_graceful(status, cancel) ==
    IF status = FL2K_RUNNING
    THEN [status |-> FL2K_CANCELING, cancel |-> 1, ret |-> FL2K_SUCCESS]
    ELSE IF status # FL2K_INACTIVE
         THEN [status |-> status, cancel |-> cancel, ret |-> FL2K_SUCCESS]
         ELSE [status |-> status, cancel |-> cancel, ret |-> FL2K_ERROR_BUSY]

\* fl2k_stop_tx as it would be if the forced stop did not reach INACTIVE
fl2k_stop_tx_restarts(status, cancel) ==
    IF status = FL2K_RUNNING
    THEN [status |-> FL2K_CANCELING, cancel |-> 1, ret |-> FL2K_SUCCESS]
    ELSE IF status # FL2K_INACTIVE
         THEN [status |-> FL2K_RUNNING, cancel |-> cancel, ret |-> FL2K_SUCCESS]
         ELSE [status |-> status, cancel |-> cancel, ret |-> FL2K_ERROR_BUSY]

\* fl2k_stop_tx on a non-null handle: the new status, the new cancel flag, the result
fl2k_stop_tx(status, cancel) ==
    IF status = FL2K_RUNNING
    THEN [status |-> FL2K_CANCELING, cancel |-> 1, ret |-> FL2K_SUCCESS]
    ELSE IF status # FL2K_INACTIVE
         THEN [status |-> FL2K_INACTIVE, cancel |-> cancel, ret |-> FL2K_SUCCESS]
         ELSE [status |-> status, cancel |-> cancel, ret |-> FL2K_ERROR_BUSY]

\* pthread_cond_signal(&dev->buf_cond): wakes the sample worker if it waits
pthread_cond_signal(s) == IF s.pc = "wait" THEN [s EXCEPT !.pc = "woken"] ELSE s

\* dev->xfer_num as fl2k_start_tx sets it
start_xfer_num(buf_num) == IF buf_num > 0 THEN buf_num ELSE DEFAULT_BUF_NUMBER

\* dev->xfer_buf_num
xfer_buf_num(n) == n + SPARE_BUFS

\* slot tags after fl2k_alloc_submit_transfers when libusb accepts the first
\* `accepted` submissions: the fill loop tags every slot EMPTY, the submit loop
\* tags slot i SUBMITTED before it looks at the result and stops at a failure
alloc_submit_info(n, accepted) ==
    [i \in 0..(xfer_buf_num(n) - 1) |->
        [state |-> IF i < n /\ i <= accepted THEN BUF_SUBMITTED ELSE BUF_EMPTY,
         seq |-> 0]]

\* dev->underflow_cnt++ (a uint32_t: it wraps at 2^32, far beyond MaxUnderflow)
underflow_incr(c) == c + 1

FirstN(k) == [j \in 1..k |-> j - 1]

(* ------------------------------------------------------------------ *)
(* Register access                                                     *)
(* ------------------------------------------------------------------ *)
\* fl2k_read_reg: the result of the control transfer is compared as a uint32_t,
\* so only a short count is an error; a negative libusb error passes the test
\* and *val is assembled from the bytes of the unwritten stack array (the
\* callers in this model overwrite bits 25 and 26 before they use the word)
fl2k_read_reg(ctrl, val) ==
    IF ctrl = CTRL_SHORT THEN [r |-> FL2K_ERROR_OTHER, val |-> val]
    ELSE IF ctrl = CTRL_FULL THEN [r |-> FL2K_SUCCESS, val |-> val]
    ELSE [r |-> FL2K_SUCCESS, val |-> [val EXCEPT !.rest = "stack"]]

\* fl2k_write_reg: anything but a count of 4 is an error
fl2k_write_reg(ctrl) == IF ctrl = CTRL_FULL THEN FL2K_SUCCESS ELSE FL2K_ERROR_OTHER

(* ------------------------------------------------------------------ *)
(* I2C transactions (fl2k_i2c_read, fl2k_i2c_write)                    *)
(* ------------------------------------------------------------------ *)
\* for (i = 0; i < 10; i++): the polls of register 0x8020
i2c_polls == 10

\* a word of register 0x8020. [done]: bit 31; [nak]: one of bits 24 to 27 is
\* set; [rest]: where the word comes from
Words8020 == [done : BOOLEAN, nak : BOOLEAN, rest : {"device"}]
NoWord == [done |-> FALSE, nak |-> FALSE, rest |-> "none"]
NoAccess == [reg |-> "none", ctrl |-> CTRL_FULL, r |-> "none", stored |-> FALSE]

\* the call returns ret
i2c_return(c, ret) == [c EXCEPT !.pc = "done", !.ret = ret]

\* the control transfer `reg` (a read or a write of a register) ends with ctrl; r: what
\* the register function made of it; stored: it wrote *val. [failed]: a
\* transfer of this call has not moved its 4 bytes; [late]: a transfer was
\* made after such a one
i2c_access(c, reg, ctrl, r, stored) ==
    [c EXCEPT !.last = [reg |-> reg, ctrl |-> ctrl, r |-> r, stored |-> stored],
              !.late = c.late \/ c.failed,
              !.failed = c.failed \/ ctrl # CTRL_FULL]

\* fl2k_i2c_write: libusb_control_transfer writes the data to register 0x8028;
\* if (r < 0) return r, so a short count goes on
i2c_write_data(c, ctrl) ==
    LET a == i2c_access(c, "write 0x8028", ctrl, ctrl, FALSE) IN
    IF ctrl = CTRL_ERROR THEN i2c_return(a, CTRL_ERROR) ELSE [a EXCEPT !.pc = "read"]

\* r = fl2k_read_reg(dev, 0x8020, &reg); if (r < 0) return r; then the mask
\* 0x3ffc0000 clears bit 31 and keeps bits 24 to 27, and the command is or-ed in
i2c_read_reg(c, ctrl, word) ==
    LET rd == fl2k_read_reg(ctrl, word)
        a == i2c_access(c, "read 0x8020", ctrl, rd.r, rd.r = FL2K_SUCCESS)
    IN  IF rd.r # FL2K_SUCCESS THEN i2c_return(a, rd.r)
        ELSE [a EXCEPT !.pc = "command", !.reg = [rd.val EXCEPT !.done = FALSE]]

\* r = fl2k_write_reg(dev, 0x8020, reg); if (r < 0) return r; then the loop
i2c_command(c, ctrl) ==
    LET r == fl2k_write_reg(ctrl)
        a == i2c_access(c, "write 0x8020", ctrl, r, FALSE)
    IN  IF r # FL2K_SUCCESS THEN i2c_return(a, r)
        ELSE [a EXCEPT !.pc = "poll", !.i = 0, !.command = TRUE]

\* after the loop: if (timeout) return FL2K_ERROR_TIMEOUT; if (reg & (0x0f <<
\* 24)) return FL2K_ERROR_NOT_FOUND; then fl2k_i2c_read reads register 0x8024
\* and fl2k_i2c_write returns FL2K_SUCCESS
i2c_after_loop(c, timeout) ==
    IF timeout THEN i2c_return(c, FL2K_ERROR_TIMEOUT)
    ELSE IF c.reg.nak THEN i2c_return(c, FL2K_ERROR_NOT_FOUND)
    ELSE IF c.op = "read" THEN [c EXCEPT !.pc = "data"]
    ELSE i2c_return(c, FL2K_SUCCESS)

\* one turn of the loop: sleep_ms(10); r = fl2k_read_reg(dev, 0x8020, &reg);
\* if (r < 0) return r; if (reg & (1 << 31)) { timeout = 0; break; }
i2c_poll(c, ctrl, word) ==
    LET rd == fl2k_read_reg(ctrl, word)
        a == [i2c_access(c, "read 0x8020", ctrl, rd.r, rd.r = FL2K_SUCCESS)
                EXCEPT !.polls = c.polls + 1]
    IN  IF rd.r # FL2K_SUCCESS THEN i2c_return(a, rd.r)
        ELSE IF rd.val.done
        THEN i2c_after_loop([a EXCEPT !.reg = rd.val, !.shown = TRUE], FALSE)
        ELSE IF c.i + 1 < i2c_polls
        THEN [a EXCEPT !.reg = rd.val, !.i = c.i + 1]
        ELSE i2c_after_loop([a EXCEPT !.reg = rd.val, !.i = c.i + 1], TRUE)

\* fl2k_i2c_read: return libusb_control_transfer(... 0x8024, data, 4, ...): the
\* count libusb gives, or its error
i2c_data(c, ctrl) ==
    i2c_return([i2c_access(c, "read 0x8024", ctrl, ctrl, ctrl # CTRL_ERROR)
                  EXCEPT !.data = TRUE], ctrl)

\* the call is entered on a non-null handle
i2c_enter(op) ==
    [op |-> op, pc |-> IF op = "write" THEN "data_out" ELSE "read", i |-> 0,
     reg |-> NoWord, ret |-> "none", last |-> NoAccess, failed |-> FALSE,
     late |-> FALSE, polls |-> 0, shown |-> FALSE, command |-> FALSE,
     data |-> FALSE]

(* ------------------------------------------------------------------ *)
(* Sample rate: the PLL register and its decoder                       *)
(* ------------------------------------------------------------------ *)
pll_clock == 160000000

\* reg = (mult << 20) | (frac << 16) | (0x60 << 8) | (out_div << 8) | div: the
\* fields do not overlap for mult, frac, out_div < 16 and div < 64, so the ors
\* are sums; 0x60 << 8 is 24576
pll_reg(mult, div, frac, out_div) ==
    mult * 1048576 + frac * 65536 + 24576 + out_div * 256 + div

\* the fields fl2k_reg_to_freq takes out of a register word
pll_fields(reg) ==
    [div |-> reg % 64,
     out_div |-> (reg \div 256) % 16,
     frac |-> (reg \div 65536) % 16,
     mult |-> (reg \div 1048576) % 16]

\* fl2k_reg_to_freq as it would be without the fractional step
fl2k_reg_to_freq_no_frac(reg) ==
    LET f == pll_fields(reg) IN ((pll_clock * f.mult) \div f.div) \div f.out_div

\* fl2k_reg_to_freq(reg) for out_div = 1 and mult <= 13, where the uint32_t
\* product pll_clock * mult does not wrap. sample_clock is the integer quotient;
\* offs_div = (pll_clock / 5) * mult, so offset = sample_clock / (offs_div / 2) *
\* 1000000 is sample_clock / (16 * mult), which the (uint32_t) cast truncates
\* (for the register words of the solver the rounding of the double never
\* crosses an integer); every value is an integer a double holds exactly
fl2k_reg_to_freq(reg) ==
    LET f == pll_fields(reg)
        sample_clock == (pll_clock * f.mult) \div f.div
        offset == sample_clock \div (16 * f.mult)
    IN  (sample_clock + offset * f.frac) \div f.out_div

fabs(x) == IF x < 0 THEN -x ELSE x

\* last_error = 1e20f: larger than every error
NoError == -1

\* the test of the solver as it would be if it kept the last of equally close
\* candidates
closer_or_equal(error, last_error) == last_error = NoError \/ error <= last_error

\* if (fabs(error) < last_error)
closer(error, last_error) == last_error = NoError \/ error < last_error

\* for (frac = 1; frac <= 15; frac++), from frac on: keep closest match
RECURSIVE set_sample_rate_frac(_, _, _, _, _)
set_sample_rate_frac(target, mult, div, frac, acc) ==
    IF frac > 15 THEN acc
    ELSE LET reg == pll_reg(mult, div, frac, 1)
             error == fabs(fl2k_reg_to_freq(reg) - target)
         IN  IF closer(error, acc.last_error)
             THEN set_sample_rate_frac(target, mult, div, frac + 1,
                                       [result_reg |-> reg, last_error |-> error])
             ELSE set_sample_rate_frac(target, mult, div, frac + 1, acc)

\* for (div = 63; div > 1; div--), from div on (the test on the result of the
\* inner loop is always true: it has the inner loop evaluated before the outer
\* one goes on)
RECURSIVE set_sample_rate_div(_, _, _, _)
set_sample_rate_div(target, mult, div, acc) ==
    IF div <= 1 THEN acc
    ELSE LET inner == set_sample_rate_frac(target, mult, div, 1, acc) IN
         IF inner.last_error # NoError
         THEN set_sample_rate_div(target, mult, div - 1, inner)
         ELSE inner

\* for (mult = 6; mult >= 3; mult--), from mult on
RECURSIVE set_sample_rate_mult(_, _, _)
set_sample_rate_mult(target, mult, acc) ==
    IF mult < 3 THEN acc
    ELSE LET inner == set_sample_rate_div(target, mult, 63, acc) IN
         IF inner.last_error # NoError
         THEN set_sample_rate_mult(target, mult - 1, inner)
         ELSE inner

\* result_reg after the three loops
set_sample_rate_search(target) ==
    set_sample_rate_mult(target, 6, [result_reg |-> 0, last_error |-> NoError]).result_reg

\* the sample rate fl2k_file asks for unless -s is given
samp_rate == 100000000

\* the target rates the application asks for
Targets == {25000000 * k : k \in 1..MaxRateK}

\* fl2k_set_sample_rate(dev, target_freq) on a non-null handle: dev->rate and the
\* word it passes to fl2k_write_reg(dev, 0x802c, result_reg), whose result it
\* returns
fl2k_set_sample_rate(target) ==
    LET result_reg == set_sample_rate_search(target) IN
        [rate |-> fl2k_reg_to_freq(result_reg), reg |-> result_reg]

\* fl2k_get_sample_rate(dev) on a non-null handle: (uint32_t)dev->rate
fl2k_get_sample_rate(r) == r

(* ------------------------------------------------------------------ *)
(* Buffer format conversion                                            *)
(* ------------------------------------------------------------------ *)
\* A buffer is a function from 0..len-1 to bytes 0..255. An output buffer is
\* [buf, writes]: the bytes, and how often each one has been stored to. A
\* producer buffer is [null, data]: a NULL pointer, or the bytes behind it.

\* out[i] = v
Store(out, i, v) ==
    [buf |-> [out.buf EXCEPT ![i] = v], writes |-> [out.writes EXCEPT ![i] = @ + 1]]

\* in[j] + offset, stored into a char
AddOffset(b, offset) == (b + offset) % 256

\* the offsets of fl2k_convert_g as they would be with 19 in the place of 18
P_G_overlap == <<5, 0, 3, 14, 9, 20, 23, 19>>

\* the input offsets of fl2k_convert_singlechan as they would be for a rotation
\* by two bytes
P_SWAP_rotate == <<2, 3, 4, 5, 6, 7, 0, 1>>

\* the output offsets of the eight statements in the loop bodies of
\* fl2k_convert_r, fl2k_convert_g and fl2k_convert_b, in statement order
P_R == <<6, 1, 12, 15, 10, 21, 16, 19>>
P_G == <<5, 0, 3, 14, 9, 20, 23, 18>>
P_B == <<4, 7, 2, 13, 8, 11, 22, 17>>

\* the input offsets of the eight statements in the loop body of
\* fl2k_convert_singlechan, which store to out[i+0] .. out[i+7]
P_SWAP == <<4, 5, 6, 7, 0, 1, 2, 3>>

\* statements k .. 8 of a multi-channel loop body: out[i + P[k]] = in[j++] + offset
\* (the buffers are whole groups long, so every store is inside the buffer; the
\* test has the buffer evaluated store by store)
RECURSIVE convert_body(_, _, _, _, _, _, _)
convert_body(out, in, i, j, offset, P, k) ==
    IF k > 8 \/ i + P[k] \notin DOMAIN out.buf THEN out
    ELSE convert_body(Store(out, i + P[k], AddOffset(in[j], offset)),
                      in, i, j + 1, offset, P, k + 1)

\* for (i = 0; i < len; i += 24), from i on with j input bytes consumed: the
\* buffer afterwards and the final j
RECURSIVE convert_loop(_, _, _, _, _, _, _)
convert_loop(out, in, len, offset, P, i, j) ==
    IF i >= len THEN [out |-> out, read |-> j]
    ELSE convert_loop(convert_body(out, in, i, j, offset, P, 1),
                      in, len, offset, P, i + 24, j + 8)

\* the three multi-channel functions differ in their offsets only; a NULL input
\* returns at once
fl2k_convert(out, in, len, offset, P) ==
    IF in.null THEN [out |-> out, read |-> 0]
    ELSE convert_loop(out, in.data, len, offset, P, 0, 0)

\* fl2k_convert_g as it would be if it stored to the offsets of the blue channel
fl2k_convert_g_as_b(out, in, len, offset) == fl2k_convert(out, in, len, offset, P_B)

fl2k_convert_r(out, in, len, offset) == fl2k_convert(out, in, len, offset, P_R)
fl2k_convert_g(out, in, len, offset) == fl2k_convert(out, in, len, offset, P_G)
fl2k_convert_b(out, in, len, offset) == fl2k_convert(out, in, len, offset, P_B)

\* statements k .. 8 of the single-channel loop body:
\* out[i + k - 1] = in[i + P_SWAP[k]] + offset
RECURSIVE convert_singlechan_body(_, _, _, _, _)
convert_singlechan_body(out, in, i, offset, k) ==
    IF k > 8 \/ i + k - 1 \notin DOMAIN out.buf THEN out
    ELSE convert_singlechan_body(
            Store(out, i + k - 1, AddOffset(in[i + P_SWAP[k]], offset)),
            in, i, offset, k + 1)

\* for (i = 0; i < len; i += 8), from i on
RECURSIVE convert_singlechan_loop(_, _, _, _, _)
convert_singlechan_loop(out, in, len, offset, i) ==
    IF i >= len THEN [out |-> out, read |-> i]
    ELSE convert_singlechan_loop(convert_singlechan_body(out, in, i, offset, 1),
                                 in, len, offset, i + 8)

fl2k_convert_singlechan(out, in, len, offset) ==
    IF in.null THEN [out |-> out, read |-> 0]
    ELSE convert_singlechan_loop(out, in.data, len, offset, 0)

\* the bias as it would be if signed samples were shifted by 127
sample_offset_127(sampletype_signed) == IF sampletype_signed # 0 THEN 127 ELSE 0

\* data_info[i].sampletype_signed ? 128 : 0
sample_offset(sampletype_signed) == IF sampletype_signed # 0 THEN 128 ELSE 0

\* FL2K_BUF_LEN and FL2K_XFER_LEN = 3 * FL2K_BUF_LEN, scaled down to `groups`
\* groups of 8 samples
FL2K_BUF_LEN(groups) == 8 * groups
FL2K_XFER_LEN(groups) == FL2K_BUF_LEN(groups) * 3

\* a transfer buffer of len bytes, none of them stored to yet (-1: what an
\* earlier use left there)
FreshBuffer(len) == [buf |-> [i \in 0..(len - 1) |-> -1], writes |-> [i \in 0..(len - 1) |-> 0]]

\* the else branch of the sample worker: the three channels of data_info[0]
\* converted into the transfer buffer of dev->xfer_buf_len bytes
sample_worker_convert_multichan(info) ==
    LET len == FL2K_XFER_LEN(info.groups)
        offset == sample_offset(info.sampletype_signed)
        r == fl2k_convert_r(FreshBuffer(len), info.r_buf, len, offset)
        g == fl2k_convert_g(r.out, info.g_buf, len, offset)
        b == fl2k_convert_b(g.out, info.b_buf, len, offset)
    IN  [kind |-> "multichan", out |-> b.out,
         read |-> [r |-> r.read, g |-> g.read, b |-> b.read]]

\* one pass of the SINGLECHAN loop of the sample worker: r_buf of one data_info
\* converted into one third of the transfer buffer
sample_worker_convert_singlechan(info) ==
    LET len == FL2K_BUF_LEN(info.groups)
        c == fl2k_convert_singlechan(FreshBuffer(len), info.r_buf, len,
                                     sample_offset(info.sampletype_signed))
    IN  [kind |-> "singlechan", out |-> c.out, read |-> [r |-> c.read, g |-> 0, b |-> 0]]

\* fl2k_convert_singlechan run with zero bias on the bytes of a buffer it has
\* written
convert_singlechan_again(o) ==
    LET len == Cardinality(DOMAIN o.out.buf)
        c == fl2k_convert_singlechan(FreshBuffer(len), [null |-> FALSE, data |-> o.out.buf],
                                     len, 0)
    IN  [kind |-> "singlechan twice", out |-> c.out, read |-> [r |-> c.read, g |-> 0, b |-> 0]]

\* producer buffers: NULL, or len bytes base, base + step, base + 2 * step, ...
NullBuf == [null |-> TRUE, data |-> <<>>]
RampBuf(len, base, step) ==
    [null |-> FALSE, data |-> [j \in 0..(len - 1) |-> (base + step * j) % 256]]
ProducerBufs(len) ==
    {NullBuf} \cup {RampBuf(len, base, step) : base \in {0, 8, 16, 127, 250}, step \in {1, 37}}

\* what a producer callback may leave in its fl2k_data_info_t
DataInfos ==
    UNION {[groups : {groups}, sampletype_signed : {0, 1},
            r_buf : ProducerBufs(FL2K_BUF_LEN(groups)),
            g_buf : ProducerBufs(FL2K_BUF_LEN(groups)),
            b_buf : ProducerBufs(FL2K_BUF_LEN(groups))] : groups \in 1..MaxGroups}

(* ------------------------------------------------------------------ *)
(* Opening a device (fl2k_open)                                        *)
(* ------------------------------------------------------------------ *)
\* A uint32_t is a pair <<hi, lo>> of 16-bit halves, so that it keeps its width
U32(n) == <<n \div 65536, n % 65536>>
UINT32_MAX == <<65535, 65535>>

\* device_count++
u32_inc(x) ==
    IF x[2] < 65535 THEN <<x[1], x[2] + 1>> ELSE <<(x[1] + 1) % 65536, 0>>

\* device_count - 1, which wraps at 0
u32_dec(x) ==
    IF x[2] > 0 THEN <<x[1], x[2] - 1>> ELSE <<(x[1] + 65535) % 65536, 65535>>

\* known_devices[]: { 0x1d5c, 0x2000, "FL2000DX OEM" }
known_devices == {[vid |-> 7516, pid |-> 8192]}

\* find_known_device(vid, pid) != NULL
find_known_device(vid, pid) == \E d \in known_devices : d.vid = vid /\ d.pid = pid

\* what may sit on the bus: an FL2000, a device of the same vendor with another
\* product id, a root hub
BusDevices == {[vid |-> 7516, pid |-> 8192], [vid |-> 7516, pid |-> 8193],
               [vid |-> 7531, pid |-> 2]}

\* no device: the NULL pointer
NoDevice == 0

\* for (i = 0; i < cnt; i++) from list position i on (positions count from 1):
\* the position of the device the loop breaks at, or NoDevice
RECURSIVE open_walk(_, _, _, _)
open_walk(list, index, i, device_count) ==
    IF i > Len(list) THEN NoDevice
    ELSE LET count == IF find_known_device(list[i].vid, list[i].pid)
                      THEN u32_inc(device_count) ELSE device_count
         IN  IF index = u32_dec(count) THEN i
             ELSE open_walk(list, index, i + 1, count)

\* fl2k_open(&dev, index) with the bus holding `list`, after malloc and
\* libusb_init have succeeded. open_ok: libusb_open succeeds; setup_ok: the
\* detaching of the kernel driver, the claiming of interface 0 and
\* fl2k_init_device succeed. Gives the result, the device passed to libusb_open,
\* and what is still held when the call returns: the device list, the open
\* device handle, the libusb context, the memory of dev
fl2k_open(list, index, open_ok, setup_ok) ==
    LET device == open_walk(list, index, 1, U32(0)) IN
        IF device = NoDevice
        THEN [r |-> "ERR", device |-> NoDevice,
              list_held |-> TRUE, devh_held |-> FALSE, ctx_held |-> FALSE,
              dev_held |-> FALSE]
        ELSE IF ~open_ok
        THEN [r |-> "ERR", device |-> device,
              list_held |-> FALSE, devh_held |-> FALSE, ctx_held |-> FALSE,
              dev_held |-> FALSE]
        ELSE IF ~setup_ok
        THEN [r |-> "ERR", device |-> device,
              list_held |-> FALSE, devh_held |-> TRUE, ctx_held |-> FALSE,
              dev_held |-> FALSE]
        ELSE [r |-> "OK", device |-> device,
              list_held |-> FALSE, devh_held |-> TRUE, ctx_held |-> TRUE,
              dev_held |-> TRUE]

\* the bus lists and indices fl2k_open is called with
RECURSIVE BusLists(_)
BusLists(n) ==
    IF n = 0 THEN {<<>>}
    ELSE BusLists(n - 1) \cup
         {Append(l, d) : l \in {b \in BusLists(n - 1) : Len(b) = n - 1}, d \in BusDevices}
OpenIndices == {U32(k) : k \in 0..MaxDevices} \cup {UINT32_MAX, u32_dec(UINT32_MAX)}

(* ------------------------------------------------------------------ *)
(* Memory of the transfer buffers                                      *)
(* ------------------------------------------------------------------ *)
\* what libusb_dev_mem_alloc gives: a buffer the kernel has zeroed, a buffer
\* that is not zeroed (the usbfs mmap bug), or NULL
KernelBufs == {"zeroed", "dirty", "NULL"}

\* a pointer of dev->xfer_buf[]: NULL, or the buffer obtained for index i from
\* the kernel or from the heap
NullPtr == [route |-> "NULL", i |-> NoXfer]
BufPtr(route, i) == [route |-> route, i |-> i]

\* the calls that release every non-NULL pointer of xfer_buf through `via`,
\* in index order
release_all(xfer_buf, via) ==
    LET all == [k \in 1..Cardinality(DOMAIN xfer_buf) |->
                   [buf |-> xfer_buf[k - 1], via |-> via]]
    IN  SelectSeq(all, LAMBDA e : e.buf # NullPtr)

\* the zero-copy loop of fl2k_alloc_submit_transfers from index i on: it stops
\* with use_zerocopy = 0 at the first NULL and at the first buffer that is not
\* zeroed, whose pointer stays in xfer_buf
RECURSIVE zerocopy_alloc(_, _, _)
zerocopy_alloc(xfer_buf, kernel, i) ==
    IF i >= Cardinality(DOMAIN xfer_buf)
    THEN [xfer_buf |-> xfer_buf, use_zerocopy |-> 1]
    ELSE IF kernel[i] = "NULL"
    THEN [xfer_buf |-> xfer_buf, use_zerocopy |-> 0]
    ELSE LET got == [xfer_buf EXCEPT ![i] = BufPtr("kernel", i)] IN
         IF kernel[i] = "dirty"
         THEN [xfer_buf |-> got, use_zerocopy |-> 0]
         ELSE zerocopy_alloc(got, kernel, i + 1)

\* the userspace loop from index i on: xfer_buf[i] = malloc(xfer_buf_len), and
\* return FL2K_ERROR_NO_MEM at the first NULL (heap_fail: the index at which
\* malloc fails)
RECURSIVE heap_alloc(_, _, _)
heap_alloc(xfer_buf, heap_fail, i) ==
    IF i >= Cardinality(DOMAIN xfer_buf)
    THEN [xfer_buf |-> xfer_buf, r |-> FL2K_SUCCESS]
    ELSE IF i = heap_fail
    THEN [xfer_buf |-> [xfer_buf EXCEPT ![i] = NullPtr], r |-> FL2K_ERROR_NO_MEM]
    ELSE heap_alloc([xfer_buf EXCEPT ![i] = BufPtr("heap", i)], heap_fail, i + 1)

\* the buffers fl2k_alloc_submit_transfers obtains for a pool of n slots.
\* zerocopy: the build has the zero-copy route (Linux, libusb 1.0.21 or later);
\* without it use_zerocopy keeps the 0 of fl2k_open. Gives xfer_buf,
\* use_zerocopy, the buffers obtained, the release calls made and the result
alloc_buffers(n, zerocopy, kernel, heap_fail) ==
    LET fresh == [i \in 0..(n - 1) |-> NullPtr]
        zc == IF zerocopy THEN zerocopy_alloc(fresh, kernel, 0)
              ELSE [xfer_buf |-> fresh, use_zerocopy |-> 0]
        hp == IF zc.use_zerocopy = 0 THEN heap_alloc(zc.xfer_buf, heap_fail, 0)
              ELSE [xfer_buf |-> zc.xfer_buf, r |-> FL2K_SUCCESS]
    IN  [xfer_buf |-> hp.xfer_buf,
         use_zerocopy |-> zc.use_zerocopy,
         obtained |-> {b \in {zc.xfer_buf[i] : i \in 0..(n - 1)}
                             \cup {hp.xfer_buf[i] : i \in 0..(n - 1)} :
                          b # NullPtr},
         released |-> IF zerocopy /\ zc.use_zerocopy = 0
                      THEN release_all(zc.xfer_buf, "libusb_dev_mem_free")
                      ELSE <<>>,
         r |-> hp.r]

\* _fl2k_free_async_buffers: every non-NULL pointer of xfer_buf is released,
\* through libusb_dev_mem_free if use_zerocopy is set, else through free
free_async_buffers(xfer_buf, use_zerocopy) ==
    release_all(xfer_buf, IF use_zerocopy = 1 THEN "libusb_dev_mem_free" ELSE "free")

\* no pool has been asked for
NoPoolMemory ==
    [pc |-> "none", n |-> 0, zerocopy |-> FALSE, kernel |-> <<>>, heap_fail |-> 0,
     xfer_buf |-> <<>>, use_zerocopy |-> 0, obtained |-> {}, released |-> <<>>,
     r |-> FL2K_SUCCESS]

(* ------------------------------------------------------------------ *)
(* Initial state: the handle as fl2k_open returns it                   *)
(* ------------------------------------------------------------------ *)
NoOpenCall == [list |-> <<>>, index |-> U32(0)]
NotOpened == [r |-> "none", device |-> NoDevice, list_held |-> FALSE,
              devh_held |-> FALSE, ctx_held |-> FALSE, dev_held |-> FALSE]
NoDataInfo == [groups |-> 0, sampletype_signed |-> 0,
               r_buf |-> NullBuf, g_buf |-> NullBuf, b_buf |-> NullBuf]
NoOutput == [kind |-> "none", out |-> FreshBuffer(0), read |-> [r |-> 0, g |-> 0, b |-> 0]]
NoRateCall == [target |-> 0, reg |-> 0, ret |-> "none"]
NoI2cCall == [i2c_enter("none") EXCEPT !.pc = "none"]
NoRate == -1

\* no completion callback is running
NoCallback == [pc |-> "none", i |-> NoXfer, st |-> LIBUSB_TRANSFER_COMPLETED,
               status |-> FL2K_INACTIVE]

\* the worker threads before the first fl2k_start_tx
NoSampleWorker ==
    [pc |-> "none", buf_cnt |-> 0, xfer |-> NoXfer, err_cb |-> 0, callback_cnt |-> 0,
     events |-> <<>>]
NoUsbWorker == [pc |-> "none", next_status |-> FL2K_INACTIVE, i |-> 0, r |-> LIBUSB_SUCCESS]

InitHandle ==
    /\ async_status = FL2K_INACTIVE
    /\ async_cancel = 0
    /\ dev_lost = FALSE
    /\ underflow_cnt = 0
    /\ xfer_num = 0
    /\ xfer = FALSE
    /\ xfer_info = EmptyPool
    /\ xfer_status = EmptyPool
    /\ inflight = <<>>
    /\ cancelling = {}
    /\ sw = NoSampleWorker
    /\ uw = NoUsbWorker
    /\ closed = FALSE
    /\ he_failed = FALSE
    /\ lost_in_session = FALSE
    /\ subHigh = -1
    /\ filledHigh = -1
    /\ seqHigh = -1
    /\ dropped = FALSE
    /\ orphans = 0
    /\ mode = FL2K_MODE_MULTICHAN
    /\ reg_8004 = [palette |-> FALSE, rest |-> "device"]
    /\ palette_ram = "reset"
    /\ set_mode_ret = "none"
    /\ set_mode_calls = 0
    /\ rate = 0
    /\ rate_got = NoRate
    /\ cb = NoCallback

\* no producer callback has run yet, no sample rate has been chosen
Init ==
    /\ InitHandle
    /\ open_in = NoOpenCall
    /\ open_out = NotOpened
    /\ rate_call = NoRateCall
    /\ conv_in = NoDataInfo
    /\ conv_out = NoOutput
    /\ i2c = NoI2cCall
    /\ mem = NoPoolMemory

(* ------------------------------------------------------------------ *)
(* Library calls of the application                                    *)
(* ------------------------------------------------------------------ *)
\* fl2k_start_tx(dev, cb, ctx, buf_num) with non-null dev and cb. alloc_ok: the
\* buffers of fl2k_alloc_submit_transfers could be allocated; accepted: how many
\* of the initial submissions libusb accepts before the first one fails
fl2k_start_tx(buf_num, alloc_ok, accepted) ==
    LET n == start_xfer_num(buf_num) IN
    /\ async_status' = FL2K_RUNNING
    /\ async_cancel' = 0
    /\ xfer_num' = n
    /\ UNCHANGED confVars
    /\ UNCHANGED <<dev_lost, underflow_cnt, closed>>
    /\ cancelling' = {}
    /\ he_failed' = FALSE
    /\ lost_in_session' = FALSE
    /\ subHigh' = -1
    /\ filledHigh' = -1
    /\ seqHigh' = -1
    /\ dropped' = FALSE
    /\ orphans' = IF WorkersAlive THEN orphans + 1 ELSE orphans
    /\ IF alloc_ok
       THEN /\ xfer' = TRUE
            /\ xfer_info' = alloc_submit_info(n, accepted)
            /\ xfer_status' = [i \in 0..(xfer_buf_num(n) - 1) |-> LIBUSB_TRANSFER_COMPLETED]
            /\ inflight' = FirstN(accepted)
            /\ uw' = [pc |-> "run", next_status |-> FL2K_INACTIVE, i |-> 0,
                      r |-> LIBUSB_SUCCESS]
            /\ sw' = [pc |-> "loop", buf_cnt |-> 0, xfer |-> NoXfer, err_cb |-> 0,
                      callback_cnt |-> 0, events |-> <<>>]
       ELSE \* FL2K_ERROR_NO_MEM: goto cleanup
            /\ xfer' = FALSE
            /\ xfer_info' = EmptyPool
            /\ xfer_status' = EmptyPool
            /\ inflight' = <<>>
            /\ UNCHANGED <<sw, uw>>

\* what fl2k_start_tx returns: 0, or FL2K_ERROR_BUSY from its cleanup path
fl2k_start_tx_ret(alloc_ok) == IF alloc_ok THEN FL2K_SUCCESS ELSE FL2K_ERROR_BUSY

StartArgs(P(_, _, _)) ==
    \E buf_num \in 1..MaxBufNum, alloc_ok \in BOOLEAN :
        \E accepted \in 0..start_xfer_num(buf_num) : P(buf_num, alloc_ok, accepted)

\* the application starts the first streaming session on the handle
StartTx ==
    /\ ~closed
    /\ orphans = 0
    /\ sw.pc = "none" /\ uw.pc = "none"
    /\ StartArgs(fl2k_start_tx)

\* the application starts the first session with any n_buffers, 0 included
StartTxAny ==
    /\ ~closed
    /\ orphans = 0
    /\ sw.pc = "none" /\ uw.pc = "none"
    /\ \E buf_num \in 0..MaxStartBuf, alloc_ok \in BOOLEAN :
          \E accepted \in 0..start_xfer_num(buf_num) :
              fl2k_start_tx(buf_num, alloc_ok, accepted)

\* the application starts another session after the worker threads of the
\* earlier one have exited
RestartTx ==
    /\ ~closed
    /\ orphans = 0
    /\ sw.pc = "done" /\ uw.pc = "done"
    /\ StartArgs(fl2k_start_tx)

\* the application calls fl2k_start_tx while worker threads are alive
StartTxAgain ==
    /\ ~closed
    /\ orphans = 0
    /\ WorkersAlive
    /\ StartArgs(fl2k_start_tx)

\* fl2k_stop_tx(dev) called by the application, from any of its threads
StopTx ==
    /\ ~closed
    /\ orphans = 0
    /\ LET res == fl2k_stop_tx(async_status, async_cancel) IN
        /\ async_status' = res.status
        /\ async_cancel' = res.cancel
    /\ UNCHANGED confVars
    /\ UNCHANGED <<dev_lost, underflow_cnt, poolVars, sw, uw, closed, histVars, orphans>>

\* fl2k_close(dev): unless the device is lost it polls until the status is
\* INACTIVE; then it releases the interface, closes the device and frees dev
fl2k_close_may_proceed(lost, status) == lost \/ status = FL2K_INACTIVE

\* after free(dev) nothing of the handle is left: the model forgets its fields
Close ==
    /\ ~closed
    /\ orphans = 0
    /\ fl2k_close_may_proceed(dev_lost, async_status)
    /\ closed' = TRUE
    /\ async_status' = FL2K_INACTIVE
    /\ async_cancel' = 0
    /\ dev_lost' = FALSE
    /\ underflow_cnt' = 0
    /\ xfer_num' = 0
    /\ xfer' = FALSE
    /\ xfer_info' = EmptyPool
    /\ xfer_status' = EmptyPool
    /\ inflight' = <<>>
    /\ cancelling' = {}
    /\ sw' = NoSampleWorker
    /\ uw' = NoUsbWorker
    /\ he_failed' = FALSE
    /\ lost_in_session' = FALSE
    /\ subHigh' = -1
    /\ filledHigh' = -1
    /\ seqHigh' = -1
    /\ dropped' = FALSE
    /\ mode' = FL2K_MODE_MULTICHAN
    /\ set_mode_ret' = "none"
    /\ set_mode_calls' = 0
    /\ rate' = 0
    /\ rate_call' = NoRateCall
    /\ rate_got' = NoRate
    /\ UNCHANGED <<orphans, reg_8004, palette_ram, convVars, openVars, i2cVars, cbVars, memVars>>

(* ------------------------------------------------------------------ *)
(* Mode switch (fl2k_set_mode) and the register access under it        *)
(* ------------------------------------------------------------------ *)
\* fl2k_set_mode as it would be if it stored the mode whatever the write gave
fl2k_set_mode_always_stores(status, cur, reg, pal, m, rd, wr) ==
    LET read == fl2k_read_reg(rd, reg)
        r == fl2k_write_reg(wr)
        val == [read.val EXCEPT !.palette = (m = FL2K_MODE_SINGLECHAN)]
        pal_after == IF m = FL2K_MODE_SINGLECHAN THEN "R_EN" ELSE pal
    IN  IF status = FL2K_RUNNING
        THEN [ret |-> FL2K_ERROR_BUSY, mode |-> cur, reg |-> reg, pal |-> pal,
              access |-> <<>>]
        ELSE IF cur = m
        THEN [ret |-> FL2K_SUCCESS, mode |-> cur, reg |-> reg, pal |-> pal,
              access |-> <<>>]
        ELSE IF read.r # FL2K_SUCCESS
        THEN [ret |-> FL2K_ERROR_OTHER, mode |-> cur, reg |-> reg, pal |-> pal,
              access |-> <<"read 0x8004">>]
        ELSE IF m \notin Modes
        THEN [ret |-> FL2K_ERROR_INVALID_PARAM, mode |-> cur, reg |-> reg, pal |-> pal,
              access |-> <<"read 0x8004">>]
        ELSE [ret |-> r, mode |-> m,
              reg |-> IF r = FL2K_SUCCESS THEN val ELSE reg, pal |-> pal_after,
              access |-> IF m = FL2K_MODE_SINGLECHAN
                         THEN <<"read 0x8004", "palette", "write 0x8004">>
                         ELSE <<"read 0x8004", "write 0x8004">>]

\* fl2k_set_mode(dev, m) on a non-null handle. status, cur: dev->async_status and
\* dev->mode; reg, pal: register 0x8004 ([palette]: bits 25 and 26 are set,
\* [rest]: where its other bits come from) and the palette RAM of the device;
\* rd, wr: the outcomes of the control transfers that read and write 0x8004.
\* fl2k_set_enabled_channels(dev, R_EN) loads the red ramp into the palette RAM;
\* its result is overwritten by that of the write. Gives the result, the stored
\* mode, the device state and the register accesses made, in order
fl2k_set_mode(status, cur, reg, pal, m, rd, wr) ==
    LET read == fl2k_read_reg(rd, reg)
        r == fl2k_write_reg(wr)
        val == [read.val EXCEPT !.palette = (m = FL2K_MODE_SINGLECHAN)]
        pal_after == IF m = FL2K_MODE_SINGLECHAN THEN "R_EN" ELSE pal
    IN  IF status = FL2K_RUNNING
        THEN [ret |-> FL2K_ERROR_BUSY, mode |-> cur, reg |-> reg, pal |-> pal,
              access |-> <<>>]
        ELSE IF cur = m
        THEN [ret |-> FL2K_SUCCESS, mode |-> cur, reg |-> reg, pal |-> pal,
              access |-> <<>>]
        ELSE IF read.r # FL2K_SUCCESS
        THEN [ret |-> FL2K_ERROR_OTHER, mode |-> cur, reg |-> reg, pal |-> pal,
              access |-> <<"read 0x8004">>]
        ELSE IF m \notin Modes
        THEN [ret |-> FL2K_ERROR_INVALID_PARAM, mode |-> cur, reg |-> reg, pal |-> pal,
              access |-> <<"read 0x8004">>]
        ELSE [ret |-> r, mode |-> IF r = FL2K_SUCCESS THEN m ELSE cur,
              reg |-> IF r = FL2K_SUCCESS THEN val ELSE reg, pal |-> pal_after,
              access |-> IF m = FL2K_MODE_SINGLECHAN
                         THEN <<"read 0x8004", "palette", "write 0x8004">>
                         ELSE <<"read 0x8004", "write 0x8004">>]

\* the application calls fl2k_set_mode, from any of its threads
SetMode ==
    /\ ~closed
    /\ orphans = 0
    /\ set_mode_calls < MaxSetMode
    /\ \E m \in Modes \cup {MODE_INVALID}, rd \in CtrlResults, wr \in CtrlResults :
        LET res == fl2k_set_mode(async_status, mode, reg_8004, palette_ram, m, rd, wr) IN
            /\ mode' = res.mode
            /\ reg_8004' = res.reg
            /\ palette_ram' = res.pal
            /\ set_mode_ret' = res.ret
            /\ set_mode_calls' = set_mode_calls + 1
    /\ UNCHANGED <<devVars, poolVars, sw, uw, closed, histVars, orphans, rateVars,
                   convVars, openVars, i2cVars, cbVars, memVars>>

(* ------------------------------------------------------------------ *)
(* Completion callback, run by libusb_handle_events on the USB worker  *)
(* ------------------------------------------------------------------ *)
\* _libusb_callback as it would be if it did not hand the completed slot back
\* to the producer
libusb_callback_keeps_tag(info, i, st, status, r) ==
    LET resubmit == st = LIBUSB_TRANSFER_COMPLETED /\ status = FL2K_RUNNING
        next_xfer == fl2k_get_next_xfer(info, BUF_FILLED)
        lost == \/ st \notin {LIBUSB_TRANSFER_CANCELLED, LIBUSB_TRANSFER_COMPLETED}
                \/ (resubmit /\ r = LIBUSB_ERROR_NO_DEVICE)
    IN  IF resubmit /\ next_xfer # NoXfer
        THEN [info |-> [info EXCEPT ![next_xfer].state = BUF_SUBMITTED],
              submit |-> next_xfer, kind |-> "filled", underflow |-> 0,
              lost |-> lost, signal |-> TRUE]
        ELSE IF resubmit
        THEN [info |-> info, submit |-> i, kind |-> "resubmit", underflow |-> 1,
              lost |-> lost, signal |-> TRUE]
        ELSE [info |-> info, submit |-> NoXfer, kind |-> "none", underflow |-> 0,
              lost |-> lost, signal |-> lost]

\* _libusb_callback as it would be if it released the slot it resubmits on an
\* underrun
libusb_callback_empties_resubmitted(info, i, st, status, r) ==
    LET resubmit == st = LIBUSB_TRANSFER_COMPLETED /\ status = FL2K_RUNNING
        next_xfer == fl2k_get_next_xfer(info, BUF_FILLED)
        lost == \/ st \notin {LIBUSB_TRANSFER_CANCELLED, LIBUSB_TRANSFER_COMPLETED}
                \/ (resubmit /\ r = LIBUSB_ERROR_NO_DEVICE)
    IN  IF resubmit /\ next_xfer # NoXfer
        THEN [info |-> [info EXCEPT ![next_xfer].state = BUF_SUBMITTED,
                                    ![i].state = BUF_EMPTY],
              submit |-> next_xfer, kind |-> "filled", underflow |-> 0,
              lost |-> lost, signal |-> TRUE]
        ELSE IF resubmit
        THEN [info |-> [info EXCEPT ![i].state = BUF_EMPTY],
              submit |-> i, kind |-> "resubmit", underflow |-> 1,
              lost |-> lost, signal |-> TRUE]
        ELSE [info |-> info, submit |-> NoXfer, kind |-> "none", underflow |-> 0,
              lost |-> lost, signal |-> lost]

\* _libusb_callback as it would be if it queued the completed slot again, as
\* FILLED, when it submits the next one
libusb_callback_requeues(info, i, st, status, r) ==
    LET resubmit == st = LIBUSB_TRANSFER_COMPLETED /\ status = FL2K_RUNNING
        next_xfer == fl2k_get_next_xfer(info, BUF_FILLED)
        lost == \/ st \notin {LIBUSB_TRANSFER_CANCELLED, LIBUSB_TRANSFER_COMPLETED}
                \/ (resubmit /\ r = LIBUSB_ERROR_NO_DEVICE)
    IN  IF resubmit /\ next_xfer # NoXfer
        THEN [info |-> [info EXCEPT ![next_xfer].state = BUF_SUBMITTED,
                                    ![i].state = BUF_FILLED],
              submit |-> next_xfer, kind |-> "filled", underflow |-> 0,
              lost |-> lost, signal |-> TRUE]
        ELSE IF resubmit
        THEN [info |-> info, submit |-> i, kind |-> "resubmit", underflow |-> 1,
              lost |-> lost, signal |-> TRUE]
        ELSE [info |-> info, submit |-> NoXfer, kind |-> "none", underflow |-> 0,
              lost |-> lost, signal |-> lost]

\* _libusb_callback as it would be if it left the endpoint idle on an underrun
libusb_callback_stalls(info, i, st, status, r) ==
    LET resubmit == st = LIBUSB_TRANSFER_COMPLETED /\ status = FL2K_RUNNING
        next_xfer == fl2k_get_next_xfer(info, BUF_FILLED)
        lost == \/ st \notin {LIBUSB_TRANSFER_CANCELLED, LIBUSB_TRANSFER_COMPLETED}
                \/ (resubmit /\ next_xfer # NoXfer /\ r = LIBUSB_ERROR_NO_DEVICE)
    IN  IF resubmit /\ next_xfer # NoXfer
        THEN [info |-> [info EXCEPT ![next_xfer].state = BUF_SUBMITTED,
                                    ![i].state = BUF_EMPTY],
              submit |-> next_xfer, kind |-> "filled", underflow |-> 0,
              lost |-> lost, signal |-> TRUE]
        ELSE [info |-> info, submit |-> NoXfer, kind |-> "none", underflow |-> 0,
              lost |-> lost, signal |-> lost]

\* _libusb_callback as it would be if it never looked for a FILLED slot
libusb_callback_never_switches(info, i, st, status, r) ==
    LET resubmit == st = LIBUSB_TRANSFER_COMPLETED /\ status = FL2K_RUNNING
        lost == \/ st \notin {LIBUSB_TRANSFER_CANCELLED, LIBUSB_TRANSFER_COMPLETED}
                \/ (resubmit /\ r = LIBUSB_ERROR_NO_DEVICE)
    IN  IF resubmit
        THEN [info |-> info, submit |-> i, kind |-> "resubmit", underflow |-> 1,
              lost |-> lost, signal |-> TRUE]
        ELSE [info |-> info, submit |-> NoXfer, kind |-> "none", underflow |-> 0,
              lost |-> lost, signal |-> lost]

\* _libusb_callback for slot i delivered with transfer status st, the engine
\* status being `status` and r the result of the libusb_submit_transfer it makes
\* (if it makes one): the slot tags afterwards, the transfer it submitted, the
\* underflow increment, whether it took the device-lost path, whether it signalled
libusb_callback(info, i, st, status, r) ==
    LET resubmit == st = LIBUSB_TRANSFER_COMPLETED /\ status = FL2K_RUNNING
        next_xfer == fl2k_get_next_xfer(info, BUF_FILLED)
        lost == \/ st \notin {LIBUSB_TRANSFER_CANCELLED, LIBUSB_TRANSFER_COMPLETED}
                \/ (resubmit /\ r = LIBUSB_ERROR_NO_DEVICE)
    IN  IF resubmit /\ next_xfer # NoXfer
        THEN [info |-> [info EXCEPT ![next_xfer].state = BUF_SUBMITTED,
                                    ![i].state = BUF_EMPTY],
              submit |-> next_xfer, kind |-> "filled", underflow |-> 0,
              lost |-> lost, signal |-> TRUE]
        ELSE IF resubmit
        THEN [info |-> info, submit |-> i, kind |-> "resubmit", underflow |-> 1,
              lost |-> lost, signal |-> TRUE]
        ELSE [info |-> info, submit |-> NoXfer, kind |-> "none", underflow |-> 0,
              lost |-> lost, signal |-> lost]

\* the USB worker is in a libusb_handle_events_timeout_completed that handles
\* events: the calls of the two while loops pass &dev->async_cancel as their
\* `completed` flag and handle nothing once it is set; the zero-timeout calls
\* pass NULL
handles_events(pc, cancel) ==
    \/ pc \in {"cancel_he", "final_he"}
    \/ pc \in {"run", "drain_he"} /\ cancel = 0

\* which transfer libusb may deliver with which status: a bulk endpoint completes
\* its transfers in submission order; a cancelled transfer reports CANCELLED; any
\* in-flight transfer may fail
Deliverable(i, st) ==
    /\ i \in InflightSet
    /\ st = LIBUSB_TRANSFER_COMPLETED => i = Head(inflight)
    /\ st = LIBUSB_TRANSFER_CANCELLED => i \in cancelling

\* what the callback for slot i does to the engine once it has read st from
\* xfer->status (line 605) and `status` from dev->async_status (line 607)
Completion(i, st, status, r) ==
    LET done == libusb_callback(xfer_info, i, st, status, r)
        accepted == done.submit # NoXfer /\ r = LIBUSB_SUCCESS
        stop == IF done.lost THEN fl2k_stop_tx(async_status, async_cancel)
                ELSE [status |-> async_status, cancel |-> async_cancel]
        seq == IF done.submit # NoXfer THEN xfer_info[done.submit].seq ELSE 0
    IN
        /\ done.submit = NoXfer => r = LIBUSB_SUCCESS
        /\ done.underflow > 0 => underflow_cnt < MaxUnderflow
        /\ xfer_status' = [xfer_status EXCEPT ![i] = st]
        /\ cancelling' = cancelling \ {i}
        /\ xfer_info' = done.info
        /\ inflight' = IF accepted THEN Append(Remove(inflight, i), done.submit)
                       ELSE Remove(inflight, i)
        /\ underflow_cnt' = IF done.underflow > 0 THEN underflow_incr(underflow_cnt)
                            ELSE underflow_cnt
        /\ dev_lost' = (dev_lost \/ done.lost)
        /\ lost_in_session' = (lost_in_session \/ done.lost)
        /\ async_status' = stop.status
        /\ async_cancel' = stop.cancel
        /\ sw' = IF done.signal THEN pthread_cond_signal(sw) ELSE sw
        /\ subHigh' = IF accepted /\ seq > subHigh THEN seq ELSE subHigh
        /\ filledHigh' = IF accepted /\ done.kind = "filled" /\ seq > filledHigh
                         THEN seq ELSE filledHigh
        /\ UNCHANGED <<modeVars, rateVars, convVars, openVars, i2cVars, memVars>>
        /\ UNCHANGED <<xfer_num, xfer, uw, closed, he_failed, seqHigh, dropped, orphans>>

\* the whole callback in one step: nothing else runs between its test of the
\* status and its submission
Deliver(i, st, r) ==
    /\ ~closed
    /\ orphans = 0
    /\ cb.pc = "none"
    /\ handles_events(uw.pc, async_cancel)
    /\ Deliverable(i, st)
    /\ Completion(i, st, async_status, r)
    /\ UNCHANGED cbVars

\* the callback in two steps, other threads running in between. First it is
\* entered for slot i and reads xfer->status and dev->async_status
CbEnter ==
    /\ ~closed
    /\ orphans = 0
    /\ cb.pc = "none"
    /\ handles_events(uw.pc, async_cancel)
    /\ \E i \in Slots, st \in {LIBUSB_TRANSFER_COMPLETED, LIBUSB_TRANSFER_CANCELLED,
                                LIBUSB_TRANSFER_ERROR} :
          /\ Deliverable(i, st)
          /\ cb' = [pc |-> "entered", i |-> i, st |-> st, status |-> async_status]
    /\ UNCHANGED <<engineVars, modeVars, rateVars, convVars, openVars, i2cVars, memVars>>

\* then it acts on what it has read, r being the result of its submission
CbFinish ==
    /\ ~closed
    /\ orphans = 0
    /\ cb.pc = "entered"
    /\ \E r \in SubmitResults : Completion(cb.i, cb.st, cb.status, r)
    /\ cb' = NoCallback

Callback ==
    \E i \in Slots, st \in {LIBUSB_TRANSFER_COMPLETED, LIBUSB_TRANSFER_CANCELLED,
                            LIBUSB_TRANSFER_ERROR}, r \in SubmitResults :
        Deliver(i, st, r)

(* ------------------------------------------------------------------ *)
(* Sample worker thread (fl2k_sample_worker)                           *)
(* ------------------------------------------------------------------ *)
SwStep(pc) == ~closed /\ orphans = 0 /\ sw.pc = pc

\* callback_cnt = (dev->mode == FL2K_MODE_SINGLECHAN) ? 3 : 1
sample_worker_callback_cnt(m) == IF m = FL2K_MODE_SINGLECHAN THEN 3 ELSE 1

\* while (FL2K_RUNNING == dev->async_status): callback_cnt is set from the mode
\* and the callback is entered with &data_info[0]
SwLoop ==
    /\ SwStep("loop")
    /\ sw' = IF async_status = FL2K_RUNNING
             THEN [sw EXCEPT !.pc = "cb",
                             !.callback_cnt = sample_worker_callback_cnt(mode),
                             !.events = <<>>]
             ELSE [sw EXCEPT !.pc = "notify"]
    /\ UNCHANGED confVars
    /\ UNCHANGED <<devVars, poolVars, uw, closed, histVars, orphans>>

\* dev->cb(&data_info[0]) returns (a producer that has handed over MaxSeq
\* buffers stays in its callback until the engine leaves RUNNING), then
\* xfer = fl2k_get_next_xfer(dev, BUF_EMPTY)
SwScan ==
    /\ SwStep("cb")
    /\ sw.buf_cnt < MaxSeq \/ async_status # FL2K_RUNNING
    /\ LET x == fl2k_get_next_xfer(xfer_info, BUF_EMPTY) IN
        sw' = [sw EXCEPT !.pc = IF x = NoXfer THEN "towait" ELSE "fill", !.xfer = x]
    /\ UNCHANGED confVars
    /\ UNCHANGED <<devVars, poolVars, uw, closed, histVars, orphans>>

\* if (!xfer) pthread_cond_wait(&dev->buf_cond, &dev->buf_mutex): from here on a
\* pthread_cond_signal wakes the thread; an earlier one is lost
SwWait ==
    /\ SwStep("towait")
    /\ sw' = [sw EXCEPT !.pc = "wait"]
    /\ UNCHANGED confVars
    /\ UNCHANGED <<devVars, poolVars, uw, closed, histVars, orphans>>

\* pthread_cond_wait may return without a signal: a spurious wakeup, or the
\* call failing because buf_mutex is not locked by the caller (nothing in the
\* library ever locks it, which POSIX leaves undefined)
SwSpurious ==
    /\ SwStep("wait")
    /\ sw' = [sw EXCEPT !.pc = "woken"]
    /\ UNCHANGED confVars
    /\ UNCHANGED <<devVars, poolVars, uw, closed, histVars, orphans>>

\* the wake-up as it would be without the test of the status
sample_worker_woken_rescans_only(status, info) ==
    LET x == fl2k_get_next_xfer(info, BUF_EMPTY) IN
    IF x = NoXfer THEN [pc |-> "loop", xfer |-> NoXfer]
    ELSE [pc |-> "fill", xfer |-> x]

\* after pthread_cond_wait returns: leave if the status is no longer RUNNING,
\* else scan once more and skip the input buffer if there is still no EMPTY slot
sample_worker_woken(status, info) ==
    IF status # FL2K_RUNNING THEN [pc |-> "notify", xfer |-> NoXfer]
    ELSE LET x == fl2k_get_next_xfer(info, BUF_EMPTY) IN
         IF x = NoXfer THEN [pc |-> "loop", xfer |-> NoXfer]
         ELSE [pc |-> "fill", xfer |-> x]

SwWoken ==
    /\ SwStep("woken")
    /\ LET n == sample_worker_woken(async_status, xfer_info) IN
        /\ sw' = [sw EXCEPT !.pc = n.pc, !.xfer = n.xfer,
                            !.callback_cnt = IF n.pc = "fill" THEN @ ELSE 0]
        /\ dropped' = (dropped \/ n.pc = "loop")
    /\ UNCHANGED confVars
    /\ UNCHANGED <<devVars, poolVars, uw, closed, he_failed, lost_in_session, subHigh,
                   filledHigh, seqHigh, orphans>>

\* the fill as it would be if every buffer were given the same seq
sample_worker_fill_same_seq(info, x, buf_cnt) ==
    [info EXCEPT ![x] = [state |-> BUF_FILLED, seq |-> 0]]

\* the conversion into the slot's buffer, then seq = buf_cnt++ and state = FILLED
sample_worker_fill(info, x, buf_cnt) ==
    [info EXCEPT ![x] = [state |-> BUF_FILLED, seq |-> buf_cnt]]

\* how the worker builds the transfer buffer once it has a slot, m being the
\* mode it reads then and cnt the callback_cnt of this iteration. parts: the
\* data_info entry each third of the buffer is converted from (SINGLECHAN), or
\* the one entry the three channels are interleaved from; calls: the entries the
\* callback has been invoked with in this iteration, in order (entry 0 before
\* the scan, entry i + 1 after the conversion of entry i while i < 2)
sample_worker_build(m, cnt) ==
    IF m = FL2K_MODE_SINGLECHAN
    THEN [layout |-> "thirds",
          parts |-> [i \in 1..cnt |-> i - 1],
          calls |-> [i \in 1..(1 + (IF cnt < 2 THEN cnt ELSE 2)) |-> i - 1]]
    ELSE [layout |-> "rgb", parts |-> <<0>>, calls |-> <<0>>]

\* the SINGLECHAN loop from index i on: data_info[i].r_buf is converted, then
\* the callback is invoked with &data_info[i + 1] while i < 2
RECURSIVE singlechan_events(_, _)
singlechan_events(i, cnt) ==
    IF i >= cnt THEN <<>>
    ELSE <<[op |-> "read", entry |-> i]>>
         \o (IF i < 2 THEN <<[op |-> "call", entry |-> i + 1]>> ELSE <<>>)
         \o singlechan_events(i + 1, cnt)

\* the iteration as it would be if the worker fetched all its buffers before it
\* converted the first
sample_worker_events_prefetch(m, cnt) ==
    IF m = FL2K_MODE_SINGLECHAN
    THEN [k \in 1..(1 + (IF cnt < 2 THEN cnt ELSE 2)) |-> [op |-> "call", entry |-> k - 1]]
         \o [k \in 1..cnt |-> [op |-> "read", entry |-> k - 1]]
    ELSE <<[op |-> "call", entry |-> 0]>>
         \o [k \in 1..3 |-> [op |-> "read", entry |-> 0]]

\* one iteration of the worker's loop in program order: the invocations of the
\* callback (call: with &data_info[entry]) and the conversions that read the
\* buffers an entry points to (read). m: the mode read once a slot is found;
\* cnt: the callback_cnt of the iteration. In MULTICHAN r_buf, g_buf and b_buf
\* of entry 0 are read in turn
sample_worker_events(m, cnt) ==
    <<[op |-> "call", entry |-> 0]>>
    \o (IF m = FL2K_MODE_SINGLECHAN
        THEN singlechan_events(0, cnt)
        ELSE [k \in 1..3 |-> [op |-> "read", entry |-> 0]])

\* the callback returns from its further invocations inside this step
SwFill ==
    /\ SwStep("fill")
    /\ xfer_info' = sample_worker_fill(xfer_info, sw.xfer, sw.buf_cnt)
    /\ sw' = [sw EXCEPT !.pc = "loop", !.xfer = NoXfer, !.buf_cnt = sw.buf_cnt + 1,
                        !.callback_cnt = 0,
                        !.events = sample_worker_events(mode, sw.callback_cnt)]
    /\ seqHigh' = xfer_info'[sw.xfer].seq
    /\ UNCHANGED confVars
    /\ UNCHANGED <<devVars, xfer_num, xfer, xfer_status, inflight, cancelling, uw,
                   closed, he_failed, lost_in_session, subHigh, filledHigh, dropped,
                   orphans>>

\* after the loop: one callback with device_error = 1 if the device is lost
sample_worker_notify(lost) == IF lost THEN 1 ELSE 0

SwNotify ==
    /\ SwStep("notify")
    /\ sw' = [pc |-> "done", buf_cnt |-> 0, xfer |-> NoXfer,
              err_cb |-> sw.err_cb + sample_worker_notify(dev_lost),
              callback_cnt |-> 0, events |-> <<>>]
    /\ seqHigh' = -1
    /\ UNCHANGED confVars
    /\ UNCHANGED <<devVars, poolVars, uw, closed, he_failed, lost_in_session, subHigh,
                   filledHigh, dropped, orphans>>

SampleWorker ==
    SwLoop \/ SwScan \/ SwWait \/ SwSpurious \/ SwWoken \/ SwFill \/ SwNotify

(* ------------------------------------------------------------------ *)
(* USB worker thread (fl2k_usb_worker)                                 *)
(* ------------------------------------------------------------------ *)
\* the thread is not in a completion callback
UwStep(pc) == ~closed /\ orphans = 0 /\ uw.pc = pc /\ cb.pc = "none"

\* while (FL2K_INACTIVE != dev->async_status): libusb_handle_events is entered,
\* or the second loop is left
usb_worker_drain_loop(status) == IF status # FL2K_INACTIVE THEN "drain_he" ELSE "signal"

\* the first loop, while (FL2K_RUNNING == dev->async_status) libusb_handle_events:
\* the thread is at "run" from the test of the condition to the return of
\* libusb_handle_events; it leaves the loop when it reads another status, and
\* goes on to the condition of the second loop
UwRun ==
    /\ UwStep("run")
    /\ async_status # FL2K_RUNNING
    /\ uw' = [uw EXCEPT !.pc = usb_worker_drain_loop(async_status)]
    /\ UNCHANGED confVars
    /\ UNCHANGED <<devVars, poolVars, sw, closed, histVars, orphans>>

\* libusb_cancel_transfer: accepted for a transfer that is in flight and not yet
\* being cancelled, LIBUSB_ERROR_NOT_FOUND otherwise
libusb_cancel_transfer(i, flying, cancelled) ==
    IF i \in flying /\ i \notin cancelled THEN LIBUSB_SUCCESS ELSE LIBUSB_ERROR_OTHER

\* the for loop over the transfers from index i on: the first transfer whose
\* status is not LIBUSB_TRANSFER_CANCELLED, or n when there is none
RECURSIVE usb_worker_next_cancel(_, _, _)
usb_worker_next_cancel(i, st, n) ==
    IF i >= n THEN n
    ELSE IF st[i] # LIBUSB_TRANSFER_CANCELLED THEN i
         ELSE usb_worker_next_cancel(i + 1, st, n)

\* after the for loop: if (dev->dev_lost || FL2K_INACTIVE == next_status) handle
\* the remaining events and break, else go round the second loop again
usb_worker_after_cancel(u, lost, status) ==
    IF lost \/ u.next_status = FL2K_INACTIVE
    THEN [u EXCEPT !.pc = "final_he", !.i = 0, !.r = LIBUSB_SUCCESS]
    ELSE [u EXCEPT !.pc = usb_worker_drain_loop(status), !.i = 0, !.r = LIBUSB_SUCCESS]

\* the for loop from index i up to its next libusb_cancel_transfer, after which
\* the thread is in the zero-timeout libusb_handle_events ("cancel_he"), or up
\* to the end of the loop. The transfer statuses the loop reads are written by
\* libusb on this same thread
usb_worker_for(u, i, lost, status, st, n, flying, cancelled) ==
    LET j == usb_worker_next_cancel(i, st, n) IN
    IF j < n
    THEN [u EXCEPT !.pc = "cancel_he", !.i = j,
                   !.r = libusb_cancel_transfer(j, flying, cancelled)]
    ELSE usb_worker_after_cancel(u, lost, status)

\* the body of the second loop after libusb_handle_events returned r
usb_worker_drain(u, r, lost, status, pool, st, n, flying, cancelled) ==
    IF r = LIBUSB_ERROR_INTERRUPTED THEN [u EXCEPT !.pc = usb_worker_drain_loop(status)]
    ELSE IF r # LIBUSB_SUCCESS THEN [u EXCEPT !.pc = "signal"]
    ELSE IF status = FL2K_CANCELING
         THEN IF ~pool
              THEN [u EXCEPT !.pc = "signal", !.next_status = FL2K_INACTIVE]
              ELSE usb_worker_for([u EXCEPT !.next_status = FL2K_INACTIVE], 0, lost,
                                  status, st, n, flying, cancelled)
         ELSE [u EXCEPT !.pc = usb_worker_drain_loop(status)]

\* after the zero-timeout libusb_handle_events that follows a cancel:
\* if (r < 0) continue; next_status = FL2K_CANCELING; and on with the for loop
usb_worker_cancelled(u, lost, status, st, n, flying, cancelled) ==
    usb_worker_for(IF u.r # LIBUSB_SUCCESS THEN u
                   ELSE [u EXCEPT !.next_status = FL2K_CANCELING],
                   u.i + 1, lost, status, st, n, flying, cancelled)

Cancels(u) ==
    IF u.pc = "cancel_he" /\ u.r = LIBUSB_SUCCESS THEN cancelling \cup {u.i}
    ELSE cancelling

\* libusb_handle_events returns r in the second loop
UwDrainEventsReturn(r) ==
    /\ UwStep("drain_he")
    /\ uw' = usb_worker_drain(uw, r, dev_lost, async_status, xfer, xfer_status,
                              xfer_buf_num(xfer_num), InflightSet, cancelling)
    /\ he_failed' = (he_failed \/ r = LIBUSB_ERROR_OTHER)
    /\ cancelling' = Cancels(uw')
    /\ UNCHANGED confVars
    /\ UNCHANGED <<devVars, xfer_num, xfer, xfer_info, xfer_status, inflight, sw,
                   closed, lost_in_session, subHigh, filledHigh, seqHigh, dropped,
                   orphans>>

UwDrainEvents == \E r \in EventResults : UwDrainEventsReturn(r)

UwCancelEvents ==
    /\ UwStep("cancel_he")
    /\ uw' = usb_worker_cancelled(uw, dev_lost, async_status, xfer_status,
                                  xfer_buf_num(xfer_num), InflightSet, cancelling)
    /\ cancelling' = Cancels(uw')
    /\ UNCHANGED confVars
    /\ UNCHANGED <<devVars, xfer_num, xfer, xfer_info, xfer_status, inflight, sw,
                   closed, histVars, orphans>>

\* the zero-timeout libusb_handle_events before the break returns
UwFinalEvents ==
    /\ UwStep("final_he")
    /\ uw' = [uw EXCEPT !.pc = "signal"]
    /\ UNCHANGED confVars
    /\ UNCHANGED <<devVars, poolVars, sw, closed, histVars, orphans>>

\* wake up sample worker: pthread_cond_signal(&dev->buf_cond)
UwSignal ==
    /\ UwStep("signal")
    /\ uw' = [uw EXCEPT !.pc = "join"]
    /\ sw' = pthread_cond_signal(sw)
    /\ UNCHANGED confVars
    /\ UNCHANGED <<devVars, poolVars, closed, histVars, orphans>>

\* pthread_join(dev->sample_worker_thread, NULL) returns, then
\* _fl2k_free_async_buffers(dev)
UwJoin ==
    /\ UwStep("join")
    /\ sw.pc = "done"
    /\ xfer' = FALSE
    /\ xfer_info' = EmptyPool
    /\ xfer_status' = EmptyPool
    /\ inflight' = <<>>
    /\ cancelling' = {}
    /\ uw' = [uw EXCEPT !.pc = "exit"]
    /\ UNCHANGED confVars
    /\ UNCHANGED <<devVars, xfer_num, sw, closed, histVars, orphans>>

\* dev->async_status = next_status; pthread_exit(NULL)
UwExit ==
    /\ UwStep("exit")
    /\ async_status' = uw.next_status
    /\ uw' = [uw EXCEPT !.pc = "done"]
    /\ UNCHANGED confVars
    /\ UNCHANGED <<async_cancel, dev_lost, underflow_cnt, poolVars, sw, closed,
                   histVars, orphans>>

UsbWorker ==
    \/ UwRun \/ UwDrainEvents \/ UwCancelEvents \/ UwFinalEvents \/ UwSignal
    \/ UwJoin \/ UwExit

(* ------------------------------------------------------------------ *)
(* Specifications                                                      *)
(* ------------------------------------------------------------------ *)
Next == StartTx \/ StopTx \/ Close \/ Callback \/ SampleWorker \/ UsbWorker

\* one streaming session on a freshly opened handle
Spec == Init /\ [][Next]_vars

\* any number of sessions; the application may also call fl2k_start_tx while
\* the worker threads of a session are alive
\* the application sets the sample rate it has chosen; wr is the outcome of
\* the control transfer that writes register 0x802c
SetSampleRate ==
    /\ ~closed
    /\ rate_call.target \in Targets
    /\ LET res == fl2k_set_sample_rate(rate_call.target) IN
        \E wr \in CtrlResults :
            /\ rate' = res.rate
            /\ rate_call' = [rate_call EXCEPT !.reg = res.reg, !.ret = fl2k_write_reg(wr)]
    /\ rate_got' = NoRate
    /\ UNCHANGED <<engineVars, modeVars, convVars, openVars, i2cVars, cbVars, memVars>>

\* the application reads the sample rate back
GetSampleRate ==
    /\ ~closed
    /\ rate_got' = fl2k_get_sample_rate(rate)
    /\ UNCHANGED <<engineVars, modeVars, convVars, openVars, i2cVars, cbVars, memVars, rate,
                   rate_call>>

\* the sample rate calls on an open handle that does not stream
InitRate ==
    /\ InitHandle
    /\ \E target \in Targets : rate_call = [NoRateCall EXCEPT !.target = target]
    /\ open_in = NoOpenCall
    /\ open_out = NotOpened
    /\ conv_in = NoDataInfo
    /\ conv_out = NoOutput
    /\ i2c = NoI2cCall
    /\ mem = NoPoolMemory
NextRate == SetSampleRate \/ GetSampleRate
SpecRate == InitRate /\ [][NextRate]_vars

\* the worker converts the producer's buffers in MULTICHAN mode
ConvertMultichan ==
    /\ conv_in # NoDataInfo
    /\ conv_out' = sample_worker_convert_multichan(conv_in)
    /\ UNCHANGED <<engineVars, modeVars, rateVars, openVars, i2cVars, cbVars, memVars, conv_in>>

\* the worker converts one producer buffer in SINGLECHAN mode
ConvertSinglechan ==
    /\ conv_in # NoDataInfo
    /\ conv_out' = sample_worker_convert_singlechan(conv_in)
    /\ UNCHANGED <<engineVars, modeVars, rateVars, openVars, i2cVars, cbVars, memVars, conv_in>>

\* the single-channel conversion is run once more, on its own output
ConvertSinglechanAgain ==
    /\ conv_out.kind = "singlechan"
    /\ conv_out' = convert_singlechan_again(conv_out)
    /\ UNCHANGED <<engineVars, modeVars, rateVars, openVars, i2cVars, cbVars, memVars, conv_in>>

\* the application calls fl2k_open
Open ==
    /\ open_out = NotOpened
    /\ \E open_ok \in BOOLEAN, setup_ok \in BOOLEAN :
         open_out' = fl2k_open(open_in.list, open_in.index, open_ok, setup_ok)
    /\ UNCHANGED <<engineVars, modeVars, rateVars, convVars, i2cVars, cbVars, memVars, open_in>>

\* fl2k_open on every bus and with every index of the model
InitOpen ==
    /\ InitHandle
    /\ rate_call = NoRateCall
    /\ conv_in = NoDataInfo
    /\ conv_out = NoOutput
    /\ i2c = NoI2cCall
    /\ mem = NoPoolMemory
    /\ open_in \in [list : BusLists(MaxDevices), index : OpenIndices]
    /\ open_out = NotOpened
NextOpen == Open
SpecOpen == InitOpen /\ [][NextOpen]_vars

\* the conversions on the buffers a producer callback has handed over
InitConvert ==
    /\ InitHandle
    /\ rate_call = NoRateCall
    /\ open_in = NoOpenCall
    /\ open_out = NotOpened
    /\ conv_in \in DataInfos
    /\ conv_out = NoOutput
    /\ i2c = NoI2cCall
    /\ mem = NoPoolMemory
NextConvert == ConvertMultichan \/ ConvertSinglechan \/ ConvertSinglechanAgain
SpecConvert == InitConvert /\ [][NextConvert]_vars

\* the control transfers of an I2C call, one step each: ctrl is the outcome of
\* the transfer and word what the array data[] holds after it (the word of the
\* device if 4 bytes arrived, else what was on the stack)
I2cStep(pc) == ~closed /\ i2c.pc = pc

I2cWriteData ==
    /\ I2cStep("data_out")
    /\ \E ctrl \in CtrlResults : i2c' = i2c_write_data(i2c, ctrl)
    /\ UNCHANGED <<engineVars, modeVars, rateVars, convVars, openVars, cbVars, memVars>>

I2cReadReg ==
    /\ I2cStep("read")
    /\ \E ctrl \in CtrlResults, word \in Words8020 : i2c' = i2c_read_reg(i2c, ctrl, word)
    /\ UNCHANGED <<engineVars, modeVars, rateVars, convVars, openVars, cbVars, memVars>>

I2cCommand ==
    /\ I2cStep("command")
    /\ \E ctrl \in CtrlResults : i2c' = i2c_command(i2c, ctrl)
    /\ UNCHANGED <<engineVars, modeVars, rateVars, convVars, openVars, cbVars, memVars>>

I2cPoll ==
    /\ I2cStep("poll")
    /\ \E ctrl \in CtrlResults, word \in Words8020 : i2c' = i2c_poll(i2c, ctrl, word)
    /\ UNCHANGED <<engineVars, modeVars, rateVars, convVars, openVars, cbVars, memVars>>

I2cData ==
    /\ I2cStep("data")
    /\ \E ctrl \in CtrlResults : i2c' = i2c_data(i2c, ctrl)
    /\ UNCHANGED <<engineVars, modeVars, rateVars, convVars, openVars, cbVars, memVars>>

\* fl2k_i2c_read and fl2k_i2c_write on an open handle
InitI2c ==
    /\ InitHandle
    /\ rate_call = NoRateCall
    /\ open_in = NoOpenCall
    /\ open_out = NotOpened
    /\ conv_in = NoDataInfo
    /\ conv_out = NoOutput
    /\ \E op \in {"read", "write"} : i2c = i2c_enter(op)
    /\ mem = NoPoolMemory
NextI2c == I2cWriteData \/ I2cReadReg \/ I2cCommand \/ I2cPoll \/ I2cData
SpecI2c == InitI2c /\ [][NextI2c]_vars

\* the engine with the application switching the mode at any time
NextMode == Next \/ SetMode
SpecMode == Init /\ [][NextMode]_vars

NextRestart == Next \/ RestartTx \/ StartTxAgain

\* the set-up of the pool for any n_buffers, and the sample worker on the pool
\* before the first completion
NextStart == StartTxAny \/ StopTx \/ SampleWorker
SpecStart == Init /\ [][NextStart]_vars

\* one session in which the threads interleave with the completion callback
\* between its test of the status and its submission
NextRace ==
    StartTx \/ StopTx \/ Close \/ CbEnter \/ CbFinish \/ SampleWorker \/ UsbWorker
SpecRace == Init /\ [][NextRace]_vars

SpecRestart == Init /\ [][NextRestart]_vars

\* fl2k_alloc_submit_transfers obtains the buffers of the pool
AllocBuffers ==
    /\ mem.pc = "start"
    /\ LET a == alloc_buffers(mem.n, mem.zerocopy, mem.kernel, mem.heap_fail) IN
        mem' = [mem EXCEPT !.pc = "allocated", !.xfer_buf = a.xfer_buf,
                           !.use_zerocopy = a.use_zerocopy, !.obtained = a.obtained,
                           !.released = a.released, !.r = a.r]
    /\ UNCHANGED <<engineVars, modeVars, rateVars, convVars, openVars, i2cVars, cbVars>>

\* _fl2k_free_async_buffers, called by fl2k_start_tx when the allocation has
\* failed and by the USB worker at the end of the session; dev->xfer_buf = NULL
FreeAsyncBuffers ==
    /\ mem.pc = "allocated"
    /\ mem' = [mem EXCEPT !.pc = "freed",
                          !.released = @ \o free_async_buffers(mem.xfer_buf,
                                                               mem.use_zerocopy),
                          !.xfer_buf = <<>>]
    /\ UNCHANGED <<engineVars, modeVars, rateVars, convVars, openVars, i2cVars, cbVars>>

\* the pool of every n_buffers of the model, on both builds, with every
\* outcome of the kernel and of malloc (heap_fail = n: malloc never fails)
InitAlloc ==
    /\ InitHandle
    /\ rate_call = NoRateCall
    /\ open_in = NoOpenCall
    /\ open_out = NotOpened
    /\ conv_in = NoDataInfo
    /\ conv_out = NoOutput
    /\ i2c = NoI2cCall
    /\ \E buf_num \in 1..MaxBufNum, zerocopy \in BOOLEAN :
        LET n == xfer_buf_num(start_xfer_num(buf_num)) IN
        \E kernel \in [0..(n - 1) -> KernelBufs], heap_fail \in 0..n :
            mem = [NoPoolMemory EXCEPT !.pc = "start", !.n = n, !.zerocopy = zerocopy,
                                       !.kernel = kernel, !.heap_fail = heap_fail]
NextAlloc == AllocBuffers \/ FreeAsyncBuffers
SpecAlloc == InitAlloc /\ [][NextAlloc]_vars

\* fl2k_file calls fl2k_set_sample_rate(dev, samp_rate) after fl2k_start_tx has
\* returned; the call tests nothing but the handle. wr is the outcome of the
\* control transfer that writes register 0x802c
file_sample_rate == fl2k_set_sample_rate(samp_rate)

SetSampleRateTx ==
    /\ ~closed
    /\ orphans = 0
    /\ \E wr \in CtrlResults :
        /\ rate' = file_sample_rate.rate
        /\ rate_call' = [target |-> samp_rate, reg |-> file_sample_rate.reg,
                         ret |-> fl2k_write_reg(wr)]
    /\ rate_got' = NoRate
    /\ UNCHANGED <<engineVars, modeVars, convVars, openVars, i2cVars, cbVars, memVars>>

\* a session in which the application makes its control calls at any time, up
\* to the first completion
NextControl ==
    \/ StartTx \/ StopTx \/ SampleWorker \/ UsbWorker
    \/ SetSampleRateTx \/ SetMode \/ StartTxAgain
SpecControl == Init /\ [][NextControl]_vars

\* the steps the scheduler owes the sample worker: every step but a spurious
\* wakeup
SampleWorkerRuns == SwLoop \/ SwScan \/ SwWait \/ SwWoken \/ SwFill \/ SwNotify

\* the steps the scheduler owes the USB worker; libusb_handle_events does not
\* fail for ever
UsbWorkerRuns ==
    \/ UwRun \/ UwDrainEventsReturn(LIBUSB_SUCCESS) \/ UwCancelEvents
    \/ UwFinalEvents \/ UwSignal \/ UwJoin \/ UwExit

\* the device finishes or cancels the transfers in flight: libusb delivers them
\* as COMPLETED or CANCELLED (a transfer error is never owed)
CallbackDelivers ==
    \E i \in Slots, st \in {LIBUSB_TRANSFER_COMPLETED, LIBUSB_TRANSFER_CANCELLED},
       r \in SubmitResults :
        Deliver(i, st, r)

\* one session under fair scheduling: each worker thread keeps running while
\* it can, and completions keep arriving while the USB worker is in
\* libusb_handle_events
Fairness ==
    /\ WF_vars(SampleWorkerRuns)
    /\ WF_vars(UsbWorkerRuns)
    /\ WF_vars(CallbackDelivers)

FairSpec == Spec /\ Fairness

(* ------------------------------------------------------------------ *)
(* Properties                                                          *)
(* ------------------------------------------------------------------ *)
\* the application can call fl2k_stop_tx at any time and the call returns
\* without waiting for anything
StopTxNeverWaits == ~closed => ENABLED StopTx

\* some worker thread, or a completion libusb owes, can take a step
WorkersCanStep == ENABLED (SampleWorkerRuns \/ UsbWorkerRuns \/ CallbackDelivers)

\* the callback delivered for slot i as COMPLETED makes a submission on the
\* branch `kind` and libusb accepts it
CallbackSubmits(i, kind) ==
    /\ async_status = FL2K_RUNNING
    /\ libusb_callback(xfer_info, i, LIBUSB_TRANSFER_COMPLETED, async_status,
                       LIBUSB_SUCCESS).kind = kind
    /\ Deliver(i, LIBUSB_TRANSFER_COMPLETED, LIBUSB_SUCCESS)

\* the slot that callback submits
Submitted(i) ==
    libusb_callback(xfer_info, i, LIBUSB_TRANSFER_COMPLETED, async_status,
                    LIBUSB_SUCCESS).submit

\* the callback delivered for slot i completes while RUNNING and finds no
\* FILLED slot
Underrun(i, r) ==
    /\ async_status = FL2K_RUNNING
    /\ Tagged(xfer_info, BUF_FILLED) = {}
    /\ Deliver(i, LIBUSB_TRANSFER_COMPLETED, r)

\* the slots of the largest pool of the model
MaxSlots == 0..(xfer_buf_num(MaxBufNum) - 1)

\* C1: fl2k_stop_tx never waits and moves the status one step: RUNNING becomes
\* CANCELING with the cancel flag set (result 0), CANCELING is forced to
\* INACTIVE (result 0), and in INACTIVE it returns FL2K_ERROR_BUSY and changes
\* nothing.
C1_StopTxTransitions ==
    /\ []StopTxNeverWaits
    /\ [](LET call == fl2k_stop_tx(async_status, async_cancel) IN
          /\ async_status = FL2K_RUNNING =>
                call = [status |-> FL2K_CANCELING, cancel |-> 1, ret |-> FL2K_SUCCESS]
          /\ async_status = FL2K_CANCELING =>
                call = [status |-> FL2K_INACTIVE, cancel |-> async_cancel,
                        ret |-> FL2K_SUCCESS]
          /\ async_status = FL2K_INACTIVE =>
                call = [status |-> FL2K_INACTIVE, cancel |-> async_cancel,
                        ret |-> FL2K_ERROR_BUSY])
    /\ [][StopTx =>
            /\ async_status = FL2K_RUNNING =>
                 async_status' = FL2K_CANCELING /\ async_cancel' = 1
            /\ async_status = FL2K_CANCELING =>
                 async_status' = FL2K_INACTIVE /\ async_cancel' = async_cancel
            /\ UNCHANGED <<dev_lost, underflow_cnt, poolVars, sw, uw, closed>>]_vars

\* C1 witness: one fl2k_stop_tx has acted on a RUNNING engine whose threads
\* are still alive
C1_Witness ==
    /\ async_status = FL2K_CANCELING
    /\ async_cancel = 1
    /\ ~dev_lost
    /\ ThreadAlive(sw) /\ ThreadAlive(uw)

\* C2: a fl2k_start_tx made while the status is RUNNING or CANCELING returns
\* FL2K_ERROR_BUSY and changes neither the status nor the pool nor the threads.
C2_StartTxBusy ==
    [][\A buf_num \in 1..MaxBufNum, alloc_ok \in BOOLEAN, accepted \in 0..MaxBufNum :
        (/\ ~closed
         /\ async_status # FL2K_INACTIVE
         /\ fl2k_start_tx(buf_num, alloc_ok, accepted))
        => /\ fl2k_start_tx_ret(alloc_ok) = FL2K_ERROR_BUSY
           /\ UNCHANGED <<async_status, poolVars, sw, uw>>]_vars

\* C3: once fl2k_stop_tx has been called a single time on a RUNNING engine
\* whose device is not lost, the drain goes on until both threads have exited:
\* as long as a worker thread is alive, one of the threads can take a step.
C3_DrainNeverStuck ==
    (/\ async_status = FL2K_CANCELING
     /\ ~dev_lost
     /\ ~he_failed
     /\ WorkersAlive)
    => WorkersCanStep

C5_SlotStates ==
    /\ \A i \in Slots : xfer_info[i].state \in BufState
    /\ xfer => Slots = 0..(xfer_buf_num(xfer_num) - 1)
    /\ Cardinality(Tagged(xfer_info, BUF_SUBMITTED)) <= xfer_num

\* C5 witness: the callback has submitted a FILLED slot, N slots are tagged
\* SUBMITTED and another slot is FILLED
C5_Witness ==
    /\ xfer
    /\ filledHigh >= 0
    /\ Cardinality(Tagged(xfer_info, BUF_SUBMITTED)) = xfer_num
    /\ Tagged(xfer_info, BUF_FILLED) # {}

\* C6 as stated: every transfer the callback submits carries a seq larger than
\* that of every transfer it submitted before, underrun resubmissions included.
C6_SubmitAscending ==
    [][\A i \in Slots, kind \in {"filled", "resubmit"} :
        CallbackSubmits(i, kind) => xfer_info[Submitted(i)].seq > subHigh]_vars

\* C6 amended: the FILLED slots the callback submits go out oldest first, in
\* strictly ascending seq (the order they were filled in); on an underrun the
\* callback submits the completed slot itself again, with the seq it had.
C6_FilledAscending ==
    [][\A i \in Slots :
        /\ CallbackSubmits(i, "filled") =>
             /\ xfer_info[Submitted(i)].state = BUF_FILLED
             /\ xfer_info[Submitted(i)].seq > filledHigh
             /\ \A k \in Tagged(xfer_info, BUF_FILLED) :
                    xfer_info[Submitted(i)].seq <= xfer_info[k].seq
        /\ CallbackSubmits(i, "resubmit") =>
             /\ Submitted(i) = i
             /\ xfer_info'[i].seq = xfer_info[i].seq]_vars

\* C6 witness: two FILLED slots have gone out in order and an underrun has
\* happened in the same session
C6_Witness ==
    /\ filledHigh >= 1
    /\ underflow_cnt >= 1
    /\ async_status = FL2K_RUNNING

\* C7: on an underrun the callback submits the completed transfer again,
\* changes no slot tag and adds one to underflow_cnt; nothing else changes
\* underflow_cnt while the handle lives, so it never decreases.
C7_Underrun ==
    [][/\ \A i \in Slots, r \in SubmitResults :
            Underrun(i, r) =>
                /\ xfer_info' = xfer_info
                /\ underflow_cnt' = underflow_cnt + 1
                /\ r = LIBUSB_SUCCESS => inflight' = Append(Remove(inflight, i), i)
       /\ (~closed' /\ underflow_cnt' # underflow_cnt) =>
            \E i \in Slots, r \in SubmitResults : Underrun(i, r)
       /\ ~closed' => underflow_cnt' >= underflow_cnt]_vars

\* C7 witness: an underrun has been counted and its transfer is in flight again
C7_Witness ==
    /\ underflow_cnt >= 1
    /\ async_status = FL2K_RUNNING
    /\ Tagged(xfer_info, BUF_FILLED) = {}
    /\ inflight # <<>>

\* C8: while the status stays RUNNING and completions keep arriving, a slot
\* tagged FILLED is eventually tagged SUBMITTED.
C8_FilledSubmitted ==
    \A i \in MaxSlots :
        (i \in Slots /\ xfer_info[i].state = BUF_FILLED)
        ~> \/ i \notin Slots
           \/ xfer_info[i].state = BUF_SUBMITTED
           \/ async_status # FL2K_RUNNING
           \/ inflight = <<>>

\* C8 witness: the producer has fallen behind (an underrun) and a FILLED slot
\* has been submitted
C8_Witness ==
    /\ underflow_cnt >= 1
    /\ filledHigh >= 0
    /\ \E i \in Slots : xfer_info[i].state = BUF_SUBMITTED /\ i \in InflightSet

\* C9: after a completion has taken the device-lost path on a RUNNING engine,
\* the sample worker goes on to its last callback with device_error = 1: as
\* long as it has not exited, one of the threads can take a step.
C9_LostReachesProducer ==
    (/\ lost_in_session
     /\ dev_lost
     /\ async_status = FL2K_CANCELING
     /\ ~he_failed
     /\ ThreadAlive(sw))
    => WorkersCanStep

\* C10: whenever fl2k_close tears the handle down, the status is INACTIVE, both
\* worker threads have exited and the pool is freed.
C10_CloseWhenInactive ==
    [][(closed' /\ ~closed) =>
        /\ async_status = FL2K_INACTIVE
        /\ ~WorkersAlive
        /\ ~xfer]_vars

(* ------------------------------------------------------------------ *)
(* Mode switch                                                         *)
(* ------------------------------------------------------------------ *)
\* every fl2k_set_mode call the application could make in the current state
SetModeCalls(P(_, _)) ==
    \A m \in Modes \cup {MODE_INVALID}, rd \in CtrlResults, wr \in CtrlResults :
        P(m, fl2k_set_mode(async_status, mode, reg_8004, palette_ram, m, rd, wr))

SetModeLeavesAll(res) ==
    /\ res.mode = mode
    /\ res.reg = reg_8004
    /\ res.pal = palette_ram
    /\ res.access = <<>>

SetModeGuarded(m, res) ==
    /\ async_status = FL2K_RUNNING => res.ret = FL2K_ERROR_BUSY /\ SetModeLeavesAll(res)
    /\ (async_status # FL2K_RUNNING /\ m = mode) =>
            res.ret = FL2K_SUCCESS /\ SetModeLeavesAll(res)
    /\ res.mode # mode =>
            /\ res.mode = m
            /\ res.ret = FL2K_SUCCESS
            /\ res.access # <<>> /\ res.access[Len(res.access)] = "write 0x8004"
            /\ res.reg.palette = (m = FL2K_MODE_SINGLECHAN)

\* C11: fl2k_set_mode called while the status is RUNNING returns BUSY and leaves
\* the stored mode, register 0x8004 and the palette RAM as they are, without a
\* register access; otherwise, called with the mode already stored, it returns
\* SUCCESS without a register access; and whenever a call changes the stored
\* mode, its write of register 0x8004 went through and it returns SUCCESS. Every
\* call the application makes behaves so, and so would every call it could make.
C11_SetModeGuarded ==
    /\ [](SetModeCalls(SetModeGuarded))
    /\ [][SetMode =>
            /\ async_status = FL2K_RUNNING =>
                    /\ set_mode_ret' = FL2K_ERROR_BUSY
                    /\ UNCHANGED <<mode, reg_8004, palette_ram>>
            /\ mode' # mode =>
                    /\ set_mode_ret' = FL2K_SUCCESS
                    /\ reg_8004'.palette = (mode' = FL2K_MODE_SINGLECHAN)]_vars

\* C11 witness: a call made while the engine streams has come back with BUSY
C11_Witness ==
    /\ async_status = FL2K_RUNNING
    /\ set_mode_ret = FL2K_ERROR_BUSY
    /\ mode = FL2K_MODE_MULTICHAN
    /\ ~reg_8004.palette

(* ------------------------------------------------------------------ *)
(* Producer buffers                                                    *)
(* ------------------------------------------------------------------ *)
\* the data_info entries whose callback invocation has returned and whose
\* pointers the worker still holds at pc: dev->cb(&data_info[0]) returns before
\* the scan for an EMPTY slot
data_info_returned(pc) == IF pc \in {"towait", "wait", "woken", "fill"} THEN {0} ELSE {}

\* the data_info entries whose r_buf, g_buf, b_buf the conversion dereferences
sample_worker_derefs(m, cnt) ==
    LET parts == sample_worker_build(m, cnt).parts IN {parts[k] : k \in DOMAIN parts}

\* C12: when the sample worker converts the producer's buffers into a slot, the
\* callback invocation that handed them over has not returned yet.
C12_ReadsDuringCallback ==
    [][SwFill => sample_worker_derefs(mode, sw.callback_cnt)
                    \cap data_info_returned(sw.pc) = {}]_vars

\* C13: a slot that becomes FILLED in SINGLECHAN mode was built from exactly
\* three callback invocations, the first, second and third third of its buffer
\* converted from the first, second and third of them; a slot that becomes
\* FILLED in MULTICHAN mode was built from exactly one invocation.
C13_CallbacksPerSlot ==
    [][SwFill =>
        LET b == sample_worker_build(mode, sw.callback_cnt) IN
            IF mode = FL2K_MODE_SINGLECHAN
            THEN b.layout = "thirds" /\ b.calls = <<0, 1, 2>> /\ b.parts = <<0, 1, 2>>
            ELSE b.layout = "rgb" /\ b.calls = <<0>> /\ b.parts = <<0>>]_vars

(* ------------------------------------------------------------------ *)
(* Sample rate                                                         *)
(* ------------------------------------------------------------------ *)
\* the position of a candidate in the iteration order of the solver: mult from
\* 6 down to 3, div from 63 down to 2, frac from 1 up to 15
Rank(mult, div, frac) == (6 - mult) * 930 + (63 - div) * 15 + (frac - 1)

RateError(reg, target) == fabs(fl2k_reg_to_freq(reg) - target)

\* C14: the register fl2k_set_sample_rate selected for the target is a candidate
\* of the search space (out_div = 1, the constant bits 0x60 << 8); no candidate
\* decodes to a rate strictly closer to the target; and every candidate that is
\* equally close comes later in the iteration order.
C14_FirstClosestMatch ==
    rate_call.ret # "none" =>
        LET t == rate_call.target
            sel == pll_fields(rate_call.reg)
            e == RateError(rate_call.reg, t)
        IN  /\ sel.mult \in 3..6 /\ sel.div \in 2..63 /\ sel.frac \in 1..15
            /\ rate_call.reg = pll_reg(sel.mult, sel.div, sel.frac, 1)
            /\ \A mult \in 3..6, div \in 2..63, frac \in 1..15 :
                 LET ce == RateError(pll_reg(mult, div, frac, 1), t) IN
                    /\ ce >= e
                    /\ ce = e => Rank(mult, div, frac) >= Rank(sel.mult, sel.div, sel.frac)

\* C14 witness: a call has selected a register for a target that a later
\* candidate of the search space matches equally well (100 MHz: mult 6, div 10,
\* frac 4 and mult 3, div 5, frac 2 both decode to it exactly)
C14_Witness ==
    /\ rate_call.ret = FL2K_SUCCESS
    /\ rate_call.target = 100000000
    /\ rate_call.reg = pll_reg(6, 10, 4, 1)
    /\ RateError(pll_reg(3, 5, 2, 1), rate_call.target) = RateError(rate_call.reg, rate_call.target)

\* the rate a register word stands for: the integer quotient of 160 MHz times
\* mult by div, plus frac times the truncated fractional step (a 16 * mult-th of
\* that quotient)
DecodedRate(reg) ==
    LET f == pll_fields(reg)
        base == (160000000 * f.mult) \div f.div
    IN  base + (base \div (16 * f.mult)) * f.frac

\* C15: after fl2k_set_sample_rate(100000000) the selected register decodes to a
\* rate within 1 Hz of 100 MHz, dev->rate is that decoded rate, and what
\* fl2k_get_sample_rate returns afterwards is exactly that decoded rate.
C15_HundredMegahertz ==
    (rate_call.target = 100000000 /\ rate_call.ret # "none") =>
        /\ fabs(DecodedRate(rate_call.reg) - 100000000) <= 1
        /\ rate = DecodedRate(rate_call.reg)
        /\ rate_got # NoRate => rate_got = DecodedRate(rate_call.reg)

\* C15 witness: 100 MHz has been set and read back
C15_Witness ==
    /\ rate_call.target = 100000000
    /\ rate_call.ret # "none"
    /\ rate_got = 100000000

(* ------------------------------------------------------------------ *)
(* Format conversion                                                   *)
(* ------------------------------------------------------------------ *)
Offsets(P) == {P[k] : k \in DOMAIN P}

AllChannels(info) == ~info.r_buf.null /\ ~info.g_buf.null /\ ~info.b_buf.null

\* C16: the offset lists of the three multi-channel functions are the ones
\* stated, pairwise disjoint, and together they are 0..23; so after
\* fl2k_convert_r, fl2k_convert_g and fl2k_convert_b have run on three channel
\* buffers, every byte of every 24-byte group of the output has been stored to
\* exactly once.
C16_OffsetsPartition ==
    /\ P_R = <<6, 1, 12, 15, 10, 21, 16, 19>>
    /\ P_G = <<5, 0, 3, 14, 9, 20, 23, 18>>
    /\ P_B = <<4, 7, 2, 13, 8, 11, 22, 17>>
    /\ Offsets(P_R) \cap Offsets(P_G) = {}
    /\ Offsets(P_R) \cap Offsets(P_B) = {}
    /\ Offsets(P_G) \cap Offsets(P_B) = {}
    /\ Offsets(P_R) \cup Offsets(P_G) \cup Offsets(P_B) = 0..23
    /\ (conv_out.kind = "multichan" /\ AllChannels(conv_in)) =>
            /\ DOMAIN conv_out.out.writes = 0..(24 * conv_in.groups - 1)
            /\ \A i \in DOMAIN conv_out.out.writes : conv_out.out.writes[i] = 1

\* C16 witness: three channel buffers of two groups have been converted
C16_Witness ==
    /\ conv_out.kind = "multichan"
    /\ AllChannels(conv_in)
    /\ conv_in.groups = 2
    /\ conv_out.out.writes[47] = 1

\* channel c of the multi-channel output: input sample 8g + k, plus the bias, is
\* at output byte 24g + P[k]
ChannelPlaced(chan, P, offset, buf, groups) ==
    \A g \in 0..(groups - 1), k \in 0..7 :
        buf[24 * g + P[k + 1]] = (chan.data[8 * g + k] + offset) % 256

\* C17: in the multi-channel conversion input sample 8g + k of a channel, plus
\* the bias, is written to output byte 24g + P_c[k]; with R = 0..7, G = 8..15,
\* B = 16..23 and no bias the bytes at the R offsets are 0..7, at the G offsets
\* 8..15 and at the B offsets 16..23; and L_in bytes are read from each channel
\* for the L_out = 3 * L_in bytes written.
C17_MultichanMapping ==
    conv_out.kind = "multichan" =>
        LET bias == IF conv_in.sampletype_signed = 1 THEN 128 ELSE 0
            out == conv_out.out.buf
            n == conv_in.groups
            L_in == 8 * n
        IN  /\ ~conv_in.r_buf.null =>
                ChannelPlaced(conv_in.r_buf, P_R, bias, out, n) /\ conv_out.read.r = L_in
            /\ ~conv_in.g_buf.null =>
                ChannelPlaced(conv_in.g_buf, P_G, bias, out, n) /\ conv_out.read.g = L_in
            /\ ~conv_in.b_buf.null =>
                ChannelPlaced(conv_in.b_buf, P_B, bias, out, n) /\ conv_out.read.b = L_in
            /\ AllChannels(conv_in) =>
                Cardinality({i \in DOMAIN out : conv_out.out.writes[i] > 0}) = 3 * L_in
            /\ (/\ n = 1 /\ bias = 0
                /\ conv_in.r_buf = RampBuf(8, 0, 1)
                /\ conv_in.g_buf = RampBuf(8, 8, 1)
                /\ conv_in.b_buf = RampBuf(8, 16, 1)) =>
                    /\ <<out[6], out[1], out[12], out[15], out[10], out[21], out[16], out[19]>>
                         = <<0, 1, 2, 3, 4, 5, 6, 7>>
                    /\ <<out[5], out[0], out[3], out[14], out[9], out[20], out[23], out[18]>>
                         = <<8, 9, 10, 11, 12, 13, 14, 15>>
                    /\ <<out[4], out[7], out[2], out[13], out[8], out[11], out[22], out[17]>>
                         = <<16, 17, 18, 19, 20, 21, 22, 23>>

\* C17 witness: R = 0..7, G = 8..15, B = 16..23 have been converted unsigned
C17_Witness ==
    /\ conv_out.kind = "multichan"
    /\ conv_in.groups = 1
    /\ conv_in.sampletype_signed = 0
    /\ conv_in.r_buf = RampBuf(8, 0, 1)
    /\ conv_in.g_buf = RampBuf(8, 8, 1)
    /\ conv_in.b_buf = RampBuf(8, 16, 1)
    /\ conv_out.out.buf[6] = 0

\* C18: the single-channel conversion with zero bias writes the second four
\* bytes of every 8-byte group of its input first and the first four bytes
\* second; run twice, it gives back its input.
C18_SinglechanInvolution ==
    (conv_in.sampletype_signed = 0 /\ ~conv_in.r_buf.null) =>
        LET in == conv_in.r_buf.data
            out == conv_out.out.buf
        IN  /\ conv_out.kind = "singlechan" =>
                /\ DOMAIN out = DOMAIN in
                /\ \A g \in 0..(conv_in.groups - 1), k \in 0..3 :
                        /\ out[8 * g + k] = in[8 * g + 4 + k]
                        /\ out[8 * g + 4 + k] = in[8 * g + k]
            /\ conv_out.kind = "singlechan twice" => out = in

\* C18 witness: a buffer of two groups has gone through the conversion twice
\* and the first pass had changed it
C18_Witness ==
    /\ conv_out.kind = "singlechan twice"
    /\ conv_in.sampletype_signed = 0
    /\ conv_in.groups = 2
    /\ ~conv_in.r_buf.null
    /\ conv_in.r_buf.data[0] # conv_in.r_buf.data[4]

\* what the worker would have written had the producer declared its samples
\* unsigned
UnsignedOutput ==
    LET info == [conv_in EXCEPT !.sampletype_signed = 0] IN
        IF conv_out.kind = "multichan" THEN sample_worker_convert_multichan(info)
        ELSE sample_worker_convert_singlechan(info)

\* C19: in both conversions every byte written with sampletype_signed = 1 is the
\* byte written with sampletype_signed = 0 plus 128 modulo 256.
C19_SignedBias ==
    (conv_out.kind \in {"multichan", "singlechan"} /\ conv_in.sampletype_signed = 1) =>
        /\ UnsignedOutput.out.writes = conv_out.out.writes
        /\ \A i \in DOMAIN conv_out.out.buf :
              conv_out.out.writes[i] > 0 =>
                 conv_out.out.buf[i] = (UnsignedOutput.out.buf[i] + 128) % 256

\* C19 witness: three channels of signed samples have been converted, one of
\* them wrapping around (250 + 128)
C19_Witness ==
    /\ conv_out.kind = "multichan"
    /\ conv_in.sampletype_signed = 1
    /\ AllChannels(conv_in)
    /\ conv_in.r_buf.data[0] = 250
    /\ conv_out.out.buf[6] = 122

(* ------------------------------------------------------------------ *)
(* Opening a device                                                    *)
(* ------------------------------------------------------------------ *)
\* the list positions of the devices that are in the known-device table
KnownPositions(list) ==
    {i \in DOMAIN list : [vid |-> list[i].vid, pid |-> list[i].pid] \in known_devices}

\* the n-th (0-based) known device of the list, NoDevice if there is none
NthKnown(list, n) ==
    IF \E i \in KnownPositions(list) :
            Cardinality({j \in KnownPositions(list) : j < i}) = n
    THEN CHOOSE i \in KnownPositions(list) :
            Cardinality({j \in KnownPositions(list) : j < i}) = n
    ELSE NoDevice

\* the number a uint32_t stands for, as far as the lists of the model go
Small(x) == IF x[1] = 0 /\ x[2] <= MaxDevices THEN x[2] ELSE MaxDevices + 1

\* C20: fl2k_open passes to libusb_open the index-th (0-based) device of the
\* bus list that is in the known-device table and never a device that is not in
\* the table; when the list holds fewer than index + 1 such devices it returns
\* an error, opens nothing and holds nothing when it returns.
C20_OpensIndexedKnown ==
    open_out.r # "none" =>
        LET wanted == NthKnown(open_in.list, Small(open_in.index)) IN
            /\ open_out.device = wanted
            /\ open_out.device # NoDevice => open_out.device \in KnownPositions(open_in.list)
            /\ wanted = NoDevice =>
                    /\ open_out.r = "ERR"
                    /\ ~open_out.devh_held
                    /\ ~open_out.list_held
                    /\ ~open_out.ctx_held
                    /\ ~open_out.dev_held

(* ------------------------------------------------------------------ *)
(* Register access and I2C                                             *)
(* ------------------------------------------------------------------ *)
\* C21: a fl2k_read_reg whose control transfer has not delivered 4 bytes (a
\* short count, or a negative libusb error) returns an error and stores no
\* value; it returns FL2K_SUCCESS only when 4 bytes arrived.
C21_ReadRegFailsUnlessFull ==
    (i2c.last.reg = "read 0x8020" /\ i2c.last.ctrl # CTRL_FULL)
    => (i2c.last.r # FL2K_SUCCESS /\ ~i2c.last.stored)

\* the transfers of the call that fl2k_i2c_read looks at have all moved their
\* 4 bytes
I2cTransfersGood == ~i2c.failed

\* C22 without its last clause: fl2k_i2c_read polls register 0x8020 at most 10
\* times after the command word is written; if no access fails it returns
\* FL2K_ERROR_TIMEOUT exactly when none of the 10 polls shows bit 31, and
\* FL2K_ERROR_NOT_FOUND when a poll shows bit 31 with one of bits 24 to 27; it
\* reads register 0x8024 only after a poll that shows bit 31 alone.
I2cReadPolls ==
    i2c.op = "read" =>
        /\ i2c.polls <= i2c_polls
        /\ i2c.polls > 0 => i2c.command
        /\ (i2c.pc = "done" /\ I2cTransfersGood) =>
              /\ i2c.ret = FL2K_ERROR_TIMEOUT <=> (i2c.polls = i2c_polls /\ ~i2c.shown)
              /\ (i2c.shown /\ i2c.reg.nak) => i2c.ret = FL2K_ERROR_NOT_FOUND
        /\ (i2c.pc = "data" \/ i2c.data) => (i2c.shown /\ i2c.reg.done /\ ~i2c.reg.nak)

\* C22: fl2k_i2c_read polls register 0x8020 at most 10 times after writing the
\* command word, returns FL2K_ERROR_TIMEOUT exactly when none of the 10 polls
\* shows bit 31, FL2K_ERROR_NOT_FOUND when a poll shows bit 31 with one of bits
\* 24 to 27, and reads register 0x8024 only when bit 31 is set alone; a
\* register access that fails ends the call with that error, before any later
\* step.
C22_I2cRead ==
    /\ I2cReadPolls
    /\ i2c.op = "read" =>
          /\ ~i2c.late
          /\ (i2c.pc # "done" /\ i2c.last.reg # "none") => i2c.last.ctrl = CTRL_FULL
          /\ (i2c.pc = "done" /\ i2c.failed) =>
                i2c.ret \notin {FL2K_SUCCESS, CTRL_FULL, CTRL_SHORT}

(* ------------------------------------------------------------------ *)
(* Slot hand-over between the producer and the completion callback     *)
(* ------------------------------------------------------------------ *)
\* slot k is tagged `from` before the step and `to` after it
SlotGoes(k, from, to) ==
    /\ k \in Slots
    /\ k \in DOMAIN xfer_info'
    /\ xfer_info[k].state = from
    /\ xfer_info'[k].state = to

\* the sample worker gives up the input buffer it holds: it has been woken
\* while RUNNING and has found no EMPTY slot
SkipsInput == SwWoken /\ sw'.pc = "loop"

\* C23: a slot that the callback takes from FILLED to SUBMITTED carries the
\* smallest seq of all slots FILLED at that moment; the seq the producer gives
\* a slot at an EMPTY to FILLED transition is larger than every seq it has
\* given before, and a skipped input buffer uses up no seq: the numbers are
\* consecutive.
C23_FifoPlayback ==
    [][/\ \A k \in Slots :
            /\ SlotGoes(k, BUF_FILLED, BUF_SUBMITTED) =>
                  \A j \in Tagged(xfer_info, BUF_FILLED) \ {k} :
                      xfer_info[k].seq < xfer_info[j].seq
            /\ SlotGoes(k, BUF_EMPTY, BUF_FILLED) =>
                  /\ xfer_info'[k].seq > seqHigh
                  /\ xfer_info'[k].seq = seqHigh + 1
                  /\ seqHigh' = xfer_info'[k].seq
       /\ SkipsInput => (seqHigh' = seqHigh /\ sw'.buf_cnt = sw.buf_cnt)]_vars

\* C23 witness: after a skipped input buffer two FILLED slots have gone out in
\* order while a slot filled later is waiting
C23_Witness ==
    /\ dropped
    /\ filledHigh >= 1
    /\ \E j \in Tagged(xfer_info, BUF_FILLED) : xfer_info[j].seq > filledHigh
    /\ seqHigh >= 2

\* the slots that go from one tag to another in the step
SlotsGoing(from, to) == {k \in Slots : SlotGoes(k, from, to)}

\* C24: while the pool exists a slot changes its tag only from EMPTY to FILLED,
\* in a step of the sample worker, or from FILLED to SUBMITTED or from
\* SUBMITTED to EMPTY, in a completion callback run by the USB worker; one
\* callback takes at most one slot to SUBMITTED, and then it takes the slot
\* that has completed, and no other, to EMPTY.
C24_SlotTransitions ==
    [][(xfer /\ xfer') =>
        /\ \A k \in Slots :
              xfer_info'[k].state # xfer_info[k].state =>
                  \/ SlotGoes(k, BUF_EMPTY, BUF_FILLED) /\ SwFill
                  \/ SlotGoes(k, BUF_FILLED, BUF_SUBMITTED)
                       /\ Callback /\ handles_events(uw.pc, async_cancel)
                  \/ SlotGoes(k, BUF_SUBMITTED, BUF_EMPTY)
                       /\ Callback /\ handles_events(uw.pc, async_cancel)
        /\ \A i \in Slots, st \in {LIBUSB_TRANSFER_COMPLETED, LIBUSB_TRANSFER_CANCELLED,
                                   LIBUSB_TRANSFER_ERROR}, r \in SubmitResults :
              Deliver(i, st, r) =>
                  /\ SlotsGoing(BUF_SUBMITTED, BUF_EMPTY) \subseteq {i}
                  /\ Cardinality(SlotsGoing(BUF_FILLED, BUF_SUBMITTED)) <= 1
                  /\ i \notin SlotsGoing(BUF_FILLED, BUF_SUBMITTED)
                  /\ SlotsGoing(BUF_FILLED, BUF_SUBMITTED) # {}
                       <=> SlotsGoing(BUF_SUBMITTED, BUF_EMPTY) = {i}]_vars

\* C24 witness: all three transitions have happened: the slot submitted first
\* has come back EMPTY, a FILLED slot has gone out in its place and another
\* slot is FILLED
C24_Witness ==
    /\ xfer
    /\ xfer_info[0].state = BUF_EMPTY
    /\ filledHigh >= 0
    /\ Tagged(xfer_info, BUF_FILLED) # {}
    /\ Tagged(xfer_info, BUF_SUBMITTED) # {}

(* ------------------------------------------------------------------ *)
(* The status and the work of the completion callback                  *)
(* ------------------------------------------------------------------ *)
\* the callback that has been entered hands a transfer to libusb in this step
\* (another slot, or the completed one again), or changes a slot tag
CallbackWorks ==
    /\ CbFinish
    /\ \/ xfer_info' # xfer_info
       \/ cb.i \in {inflight'[k] : k \in DOMAIN inflight'}
       \/ {inflight'[k] : k \in DOMAIN inflight'} \ InflightSet # {}
       \/ underflow_cnt' # underflow_cnt

\* C25: only RUNNING permits new work: the completion callback submits or
\* resubmits a transfer, or changes the tag of a slot, only at a moment when
\* the status is RUNNING, also when fl2k_stop_tx runs on another thread while
\* the callback is running.
C25_WorkOnlyWhenRunning ==
    [][CallbackWorks => async_status = FL2K_RUNNING]_vars

(* ------------------------------------------------------------------ *)
(* The end of the USB worker                                           *)
(* ------------------------------------------------------------------ *)
\* C26: when the USB worker terminates, whichever way it has left its drain
\* loop (every transfer cancelled, device lost, libusb_handle_events failed,
\* status forced to INACTIVE), the status it leaves behind is INACTIVE.
C26_ExitLeavesInactive ==
    [][UwExit => async_status' = FL2K_INACTIVE]_vars

\* C27: when the USB worker frees the pool the sample worker has terminated
\* and, unless the device is lost, no transfer is in flight any more: every
\* submitted transfer has been delivered to the callback, however often
\* fl2k_stop_tx has been called (a failure of libusb_handle_events set aside).
C27_FreeWhenDrained ==
    [][(UwJoin /\ ~he_failed) =>
         /\ sw.pc = "done"
         /\ dev_lost \/ inflight = <<>>]_vars

(* ------------------------------------------------------------------ *)
(* Backpressure on the producer                                        *)
(* ------------------------------------------------------------------ *)
\* C28: a sample worker that finds no EMPTY slot goes into the wait; when it
\* wakes it leaves its loop without filling a slot if the status is no longer
\* RUNNING, else it scans once more and, if there still is no EMPTY slot, drops
\* the input buffer it holds (no slot and no seq is touched) and goes on to
\* the next callback; it never waits twice for one input buffer.
C28_WaitOnceThenDrop ==
    [][/\ SwScan =>
            IF Tagged(xfer_info, BUF_EMPTY) = {}
            THEN sw'.pc = "towait" /\ UNCHANGED <<xfer_info, seqHigh>>
            ELSE sw'.pc = "fill" /\ sw'.xfer \in Tagged(xfer_info, BUF_EMPTY)
       /\ SwWait => sw'.pc = "wait"
       /\ SwWoken =>
            /\ UNCHANGED <<xfer_info, seqHigh>>
            /\ sw'.buf_cnt = sw.buf_cnt
            /\ sw'.pc \notin {"towait", "wait"}
            /\ async_status # FL2K_RUNNING => sw'.pc = "notify"
            /\ (async_status = FL2K_RUNNING /\ Tagged(xfer_info, BUF_EMPTY) = {})
                 => sw'.pc = "loop" /\ dropped'
            /\ (async_status = FL2K_RUNNING /\ Tagged(xfer_info, BUF_EMPTY) # {})
                 => sw'.pc = "fill" /\ sw'.xfer \in Tagged(xfer_info, BUF_EMPTY)
       /\ (sw.pc = "notify" /\ sw'.pc = "done") => UNCHANGED <<xfer_info>>]_vars

\* C28 witness: the sample worker has dropped an input buffer and is in the
\* next callback, the engine still RUNNING and every slot still taken
C28_Witness ==
    /\ dropped
    /\ sw.pc = "cb"
    /\ async_status = FL2K_RUNNING
    /\ Tagged(xfer_info, BUF_EMPTY) = {}
    /\ seqHigh = 1

(* ------------------------------------------------------------------ *)
(* Transfers in flight                                                 *)
(* ------------------------------------------------------------------ *)
\* libusb has accepted every submission made so far: each slot tagged
\* SUBMITTED is in its hands (a refused submission leaves the tag behind)
AllAccepted == Tagged(xfer_info, BUF_SUBMITTED) \subseteq InflightSet

\* C29: while the status is RUNNING and every submission is accepted, exactly
\* N = xfer_num transfers are in flight between callbacks; a completion that
\* is delivered then leads to exactly one submission, of the FILLED slot of
\* smallest seq or, if there is none, of the completed transfer again.
C29_AlwaysNInFlight ==
    /\ []((async_status = FL2K_RUNNING /\ xfer /\ AllAccepted) =>
            /\ Len(inflight) = xfer_num
            /\ Cardinality(InflightSet) = xfer_num
            /\ InflightSet = Tagged(xfer_info, BUF_SUBMITTED))
    /\ [][\A i \in Slots :
            (/\ async_status = FL2K_RUNNING
             /\ Deliver(i, LIBUSB_TRANSFER_COMPLETED, LIBUSB_SUCCESS))
            => /\ async_status' = FL2K_RUNNING
               /\ Len(inflight') = Len(inflight)
               /\ \E k \in Slots :
                    /\ inflight' = Append(Remove(inflight, i), k)
                    /\ IF Tagged(xfer_info, BUF_FILLED) = {} THEN k = i
                       ELSE k \in Tagged(xfer_info, BUF_FILLED)]_vars

\* C29 witness: the engine is RUNNING after an underrun resubmission and after
\* the submission of a FILLED slot, no submission has been refused and N
\* transfers are in flight
C29_Witness ==
    /\ async_status = FL2K_RUNNING
    /\ xfer
    /\ AllAccepted
    /\ underflow_cnt >= 1
    /\ filledHigh >= 0
    /\ Len(inflight) = xfer_num

(* ------------------------------------------------------------------ *)
(* The pool after fl2k_start_tx                                        *)
(* ------------------------------------------------------------------ *)
\* C30: after a fl2k_start_tx that returns success, the pool has N + 2 slots,
\* N being n_buffers, or 4 when n_buffers is 0; slots 0 to N - 1 are tagged
\* SUBMITTED and the two others EMPTY.
C30_PoolAfterStart ==
    [][\A buf_num \in 0..MaxStartBuf, alloc_ok \in BOOLEAN :
       \A accepted \in 0..start_xfer_num(buf_num) :
        (/\ StartTxAny
         /\ fl2k_start_tx(buf_num, alloc_ok, accepted)
         /\ fl2k_start_tx_ret(alloc_ok) = FL2K_SUCCESS)
        => LET N == IF buf_num > 0 THEN buf_num ELSE 4 IN
           /\ DOMAIN xfer_info' = 0..(N + 1)
           /\ \A i \in 0..(N - 1) : xfer_info'[i].state = BUF_SUBMITTED
           /\ \A i \in N..(N + 1) : xfer_info'[i].state = BUF_EMPTY]_vars

\* C31: while the worker threads of a session are alive and the status is
\* RUNNING or CANCELING, no call on the handle changes the configured mode, the
\* stored sample rate or the pool size (fl2k_close frees the handle and is not
\* counted).
C31_ConfigFrozenWhileStreaming ==
    [][(WorkersAlive /\ async_status \in {FL2K_RUNNING, FL2K_CANCELING} /\ ~closed')
          => UNCHANGED <<mode, rate, xfer_num>>]_vars

\* the release calls made on buffer b, and the route a release call belongs to
ReleasesOf(b) == {k \in DOMAIN mem.released : mem.released[k].buf = b}
RouteOf(via) == IF via = "free" THEN "heap" ELSE "kernel"

\* the pool holds a buffer for every slot, all from one route, and every kernel
\* buffer of a failed zero-copy attempt has been released once
PoolOneRoute ==
    (mem.pc = "allocated" /\ mem.r = FL2K_SUCCESS) =>
        /\ \A i \in 0..(mem.n - 1) :
             mem.xfer_buf[i].route = IF mem.use_zerocopy = 1 THEN "kernel" ELSE "heap"
        /\ mem.use_zerocopy = 0 =>
             \A b \in mem.obtained :
                b.route = "kernel" => Cardinality(ReleasesOf(b)) = 1

\* C32: after the allocation all N + 2 buffers of the pool are kernel buffers or
\* all are heap buffers, the kernel buffers of a failed zero-copy attempt having
\* been released; and once the pool has been freed every buffer that was
\* obtained has been released exactly once, through the route it came from,
\* also when malloc failed part-way.
C32_PoolBuffersOneRoute ==
    /\ PoolOneRoute
    /\ mem.pc = "freed" =>
        /\ \A b \in mem.obtained : Cardinality(ReleasesOf(b)) = 1
        /\ \A k \in DOMAIN mem.released :
             /\ mem.released[k].buf \in mem.obtained
             /\ RouteOf(mem.released[k].via) = mem.released[k].buf.route

\* C33: whenever the sample worker is about to convert into the buffer of the
\* slot it has picked, that slot is still tagged EMPTY and its transfer is not
\* in flight, whatever completion callbacks have run since the worker picked it.
C33_WritesOnlyEmpty ==
    sw.pc = "fill" =>
        /\ sw.xfer \in Slots
        /\ xfer_info[sw.xfer].state = BUF_EMPTY
        /\ sw.xfer \notin InflightSet

\* C33 witness: the worker holds a slot it has not written yet while a slot
\* before it is EMPTY: a completion callback has handed that one back since the
\* worker scanned the pool, and another callback is under way
C33_Witness ==
    /\ sw.pc = "fill"
    /\ \E j \in Slots : j < sw.xfer /\ xfer_info[j].state = BUF_EMPTY
    /\ cb.pc = "entered"

\* C34: fl2k_start_tx creates its pump and producer threads only when no pump
\* and no producer thread of an earlier session of the handle is alive, so that
\* there is never more than one of each.
C34_OneThreadPair ==
    [][\A buf_num \in 1..MaxBufNum, accepted \in 0..MaxBufNum :
        (~closed /\ fl2k_start_tx(buf_num, TRUE, accepted))
            => (~ThreadAlive(uw) /\ ~ThreadAlive(sw))]_vars

\* C35: when fl2k_start_tx returns an error, the status afterwards is INACTIVE,
\* no worker thread is running and fl2k_close may proceed.
C35_FailedStartLeavesInactive ==
    [][\A buf_num \in 1..MaxBufNum, alloc_ok \in BOOLEAN, accepted \in 0..MaxBufNum :
        (/\ ~closed
         /\ fl2k_start_tx(buf_num, alloc_ok, accepted)
         /\ fl2k_start_tx_ret(alloc_ok) # FL2K_SUCCESS)
        => /\ async_status' = FL2K_INACTIVE
           /\ ~ThreadAlive(sw') /\ ~ThreadAlive(uw')
           /\ fl2k_close_may_proceed(dev_lost', async_status')]_vars

\* C36: a slot is tagged SUBMITTED only while its transfer is held by the USB
\* layer: accepted by libusb_submit_transfer and not yet delivered to the
\* completion callback.
C36_SubmittedIsInFlight ==
    \A i \in Slots : xfer_info[i].state = BUF_SUBMITTED => i \in InflightSet

\* the invocations that have begun before position p of an iteration
CallsBefore(events, p) == {q \in 1..(p - 1) : events[q].op = "call"}

\* C37: every conversion of an iteration reads the buffers of the entry that
\* the latest invocation of the callback was given: no later invocation has
\* begun when the buffers of an invocation are read. The first invocation of
\* the next iteration begins after the last read of this one.
C37_ReadsBeforeNextCall ==
    \A p \in DOMAIN sw.events :
        sw.events[p].op = "read" =>
            /\ CallsBefore(sw.events, p) # {}
            /\ \A q \in CallsBefore(sw.events, p) :
                 (\A q2 \in CallsBefore(sw.events, p) : q2 <= q)
                     => sw.events[q].entry = sw.events[p].entry

\* C37 witness: the worker has built its second buffer in SINGLECHAN with three
\* invocations of the callback and three conversions
C37_Witness ==
    /\ sw.pc = "loop"
    /\ sw.buf_cnt >= 2
    /\ Len(sw.events) = 6
    /\ {sw.events[p].entry : p \in DOMAIN sw.events} = {0, 1, 2}

====
